---- MODULE Spec2Model ----
(***************************************************************************)
(* A model of the chat client: the credential store and the refresh logic  *)
(* of AuthService (src/src/services/auth.service.ts), the AuthProvider     *)
(* that calls it (src/src/contexts/AuthContext.tsx), the streaming turn of *)
(* ChatWindow and its settings modal (src/src/components/ChatWindow.tsx),  *)
(* ChatApp (src/src/types/document.ts) and the ingestion poller of the     *)
(* Documents page (src/src/pages/Documents.tsx).                           *)
(*                                                                         *)
(* JavaScript runs each continuation to completion: a step of the model is *)
(* the code between two suspension points (await of a fetch, of a read).   *)
(* The server and the network are the environment: every response status,  *)
(* every chunking of a body and every ordering of the responses is allowed.*)
(***************************************************************************)
EXTENDS Integers, Sequences, FiniteSets, Bags, TLC

(***************************************************************************)
(* Bounds of the model.                                                    *)
(***************************************************************************)
\* number of refreshUser invocations (each calls AuthService.getCurrentUser)
NumCalls == 2
\* number of token pairs the server issues (logins and refreshes together);
\* it also caps the recursion of getCurrentUser, which has no cap of its own
MaxIssued == 2
\* number of handleSendMessage invocations of the chat window
MaxTurns == 2
\* number of ChatWindow instances ChatApp mounts (thread selections and new chats)
MaxKeys == 2
\* number of document ids: the documents of the server and the one an
\* upload adds
NumDocs == 2
\* number of requests of the Documents page in flight
MaxInFlight == 2
\* number of ticks of the ingestion-status timer
MaxTicks == 2

VARIABLES
    localStorage,   \* [access_token, refresh_token], NoToken when the key is absent
    issued,         \* number of token pairs the server has issued so far
    call,           \* call[c]: one refreshUser -> getCurrentUser invocation
    refreshLog,     \* refresh tokens submitted to /auth/refresh, in order
    loginPc,        \* AuthProvider.signup and login: "idle", "signup" (awaiting
                    \* /auth/signup), "signupFailed", "sent" (awaiting /auth/login),
                    \* "done", "failed"
    user,           \* AuthProvider state: NoUser or a user
    updatePc,       \* "idle" or "sent": AuthService.updateUser awaiting PATCH /auth/me
    \* one ChatWindow instance (ChatApp gives each thread a new instance by key)
    messages,       \* useState: the transcript, a sequence of [id, type, content]
    isStreaming,    \* useState
    isWaitingForResponse, \* useState
    abortControllerRef,   \* useRef: NoTurn (null) or the turn whose controller it holds
    mounted,        \* whether the instance is mounted
    history,        \* fetchSessionHistory: "pending", "loaded" or "failed"
    nextId,         \* source of the ids generateMessageId returns
    nTurns,         \* number of handleSendMessage invocations so far
    turn,           \* turn[t]: the closure of the t-th handleSendMessage invocation
    \* ChatApp
    currentThreadId,  \* useState: the thread shown
    key,              \* useState: the key of the ChatWindow instance shown
    \* the settings of the ChatWindow instance and its ChatSettingsModal
    showSettings,   \* useState of ChatWindow: whether the modal is shown
    chatSettings,   \* useState of ChatWindow: [use_rag, rag_k, rag_threshold]
    localSettings,  \* useState of ChatSettingsModal
    \* the Documents page
    documents,      \* useState: the list, a sequence of [id, ingestion_status]
    processingDocs, \* useState: set of document ids
    ingestionCheckInterval, \* useRef: the timer and the closure of its callback
    ingest,         \* bag of the handleIngest invocations awaiting triggerIngestion
    check,          \* bag of the running checkProcessingDocuments invocations:
                    \* the ids each has yet to query
    serverStatus,   \* the server: the ingestion status of each document, "none"
                    \* before it is uploaded, "deleted" after
    ticks,          \* number of ticks of the timer so far
    docsMounted,    \* whether the page is mounted
    fetching,       \* number of fetchDocuments invocations awaiting the list
    loading,        \* useState: the spinner is shown in place of the list
    searchQuery,    \* useState: the text of the search box
    sortField,      \* useState: "filename", "file_size" or "created_at"
    sortOrder,      \* useState: "asc" or "desc"
    viewMode,       \* useState: "list" or "grid"
    selectedDoc,    \* useState: NoDoc (null) or the document of the details panel
    selectedDocIds, \* useState: the Set of checked ids, in insertion order
    uploading,      \* useState
    uploads,        \* number of handleUpload invocations awaiting uploadDocument
    deleting,       \* bag of the handleDelete invocations awaiting deleteDocument
    bulk            \* bag of the handleBulkDelete invocations: the ids each has
                    \* yet to delete

authVars == <<localStorage, issued, call, refreshLog, loginPc, user, updatePc>>

appVars == <<currentThreadId, key>>

settingsVars == <<showSettings, chatSettings, localSettings>>

docsVars == <<documents, processingDocs, ingestionCheckInterval, ingest, check,
              serverStatus, ticks, docsMounted, fetching, loading, searchQuery,
              sortField, sortOrder, viewMode, selectedDoc,
              selectedDocIds, uploading, uploads, deleting, bulk>>

\* what the user has chosen for the list: search, sorting and view
viewVars == <<searchQuery, sortField, sortOrder, viewMode>>

pageVars == <<settingsVars, docsVars>>

chatVars == <<messages, isStreaming, isWaitingForResponse, abortControllerRef,
              mounted, history, nextId, nTurns, turn, currentThreadId, key>>

vars == <<localStorage, issued, call, refreshLog, loginPc, user, updatePc,
          messages, isStreaming, isWaitingForResponse, abortControllerRef,
          mounted, history, nextId, nTurns, turn, currentThreadId, key,
          showSettings, chatSettings, localSettings,
          documents, processingDocs, ingestionCheckInterval, ingest, check,
          serverStatus, ticks, docsMounted, fetching, loading, searchQuery,
          sortField, sortOrder, viewMode, selectedDoc,
          selectedDocIds, uploading, uploads, deleting, bulk>>

Calls == 1..NumCalls

\* calls are numbered in the order they are made: c is the next call to begin
nextCall(c) ==
    /\ call[c].pc = "idle"
    /\ \A d \in Calls : d < c => call[d].pc # "idle"

\* localStorage.getItem returns null for an absent key
NoToken == 0
NoUser == 0
\* the user object /auth/me answers with
TheUser == 1
\* the user object PATCH /auth/me answers with
UpdatedUser == 2

\* The k-th token pair the server issues: a fresh access token (odd) and a
\* fresh refresh token (even).
TokenPair(k) == [access_token |-> 2 * k - 1, refresh_token |-> 2 * k]

(***************************************************************************)
(* AuthService: the credential store.                                      *)
(***************************************************************************)
\* a setTokens that forgets the refresh token
setTokens_accessOnly(ls, token) ==
    [ls EXCEPT !.access_token = token.access_token]

setTokens(ls, token) ==
    [ls EXCEPT !.access_token = token.access_token,
               !.refresh_token = token.refresh_token]

getToken(ls) == ls.access_token

getRefreshToken(ls) == ls.refresh_token

\* a clearTokens that forgets the refresh token
clearTokens_accessOnly(ls) ==
    [ls EXCEPT !.access_token = NoToken]

clearTokens(ls) ==
    [ls EXCEPT !.access_token = NoToken, !.refresh_token = NoToken]

isAuthenticated(ls) == getToken(ls) # NoToken

\* the Authorization header of a request: the bearer token, or NoToken for {}
getAuthHeader(ls) == getToken(ls)

(***************************************************************************)
(* AuthService.getCurrentUser, up to its first await: reads the token,     *)
(* throws when there is none, else sends GET /auth/me with it.  r is the   *)
(* record of the call, ls the storage at that moment.                      *)
(***************************************************************************)
getCurrentUser(r, ls) ==
    IF getToken(ls) = NoToken
    THEN [r EXCEPT !.pc = "failed", !.error = "No authentication token"]
    ELSE [r EXCEPT !.pc = "me",
                   !.token = getToken(ls),
                   !.sent = Append(@, getToken(ls)),
                   !.meCalls = @ + 1]

(***************************************************************************)
(* AuthService.refreshAccessToken, up to its await: returns false when no  *)
(* refresh token is stored (the caller then throws), else sends            *)
(* POST /auth/refresh with the stored refresh token.                       *)
(***************************************************************************)
refreshAccessToken(r, ls) ==
    IF getRefreshToken(ls) = NoToken
    THEN [r EXCEPT !.pc = "failed", !.error = "Failed to fetch user"]
    ELSE [r EXCEPT !.pc = "refresh",
                   !.rtoken = getRefreshToken(ls),
                   !.refreshCalls = @ + 1]

\* the catch and the success branch of AuthProvider.refreshUser
setUserAfter(r, u) ==
    CASE r.pc = "done" -> TheUser
      [] r.pc = "failed" -> NoUser
      [] OTHER -> u

InitCall ==
    [pc |-> "idle", token |-> NoToken, rtoken |-> NoToken, sent |-> <<>>,
     got |-> TokenPair(0), meCalls |-> 0, refreshCalls |-> 0, log |-> <<>>,
     error |-> "", caller |-> ""]

\* the user has logged in before: the first pair the server issued is stored
InitAuth ==
    /\ issued = 1
    /\ localStorage = TokenPair(1)
    /\ call = [c \in Calls |-> InitCall]
    /\ refreshLog = <<>>
    /\ loginPc = "idle"
    /\ user = NoUser
    /\ updatePc = "idle"

\* the provider has just mounted with a token stored: its effect has not
\* run yet and nothing else has been called
startup ==
    /\ \A d \in Calls : call[d].pc = "idle"
    /\ loginPc = "idle"
    /\ isAuthenticated(localStorage)

\* AuthProvider.initAuth, run once when the provider mounts: when a token is
\* stored it awaits refreshUser inside a try whose catch clears the tokens.
\* refreshUser catches every error of getCurrentUser itself and never
\* rejects, so that catch never runs: initAuth is its refreshUser call.
initAuth(c) ==
    /\ nextCall(c)
    /\ startup
    /\ LET r == getCurrentUser([call[c] EXCEPT !.caller = "initAuth"], localStorage) IN
          /\ call' = [call EXCEPT ![c] = r]
          /\ user' = setUserAfter(r, user)
    /\ UNCHANGED <<localStorage, issued, refreshLog, loginPc>>
    /\ UNCHANGED updatePc
    /\ UNCHANGED chatVars
    /\ UNCHANGED pageVars

\* AuthProvider.signup or login is awaiting its request
loginInFlight == loginPc \in {"signup", "sent"}

\* the calls are bounded: while a signup or login is in flight the last call
\* is kept for the refreshUser that follows its success
callAvailable(c) == loginInFlight => c < NumCalls

\* AuthProvider.refreshUser: calls AuthService.getCurrentUser; the first call
\* made at startup is the one of initAuth
refreshUser(c) ==
    /\ nextCall(c)
    /\ callAvailable(c)
    /\ ~startup
    /\ LET r == getCurrentUser(call[c], localStorage) IN
          /\ call' = [call EXCEPT ![c] = r]
          /\ user' = setUserAfter(r, user)
    /\ UNCHANGED <<localStorage, issued, refreshLog, loginPc>>
    /\ UNCHANGED updatePc
    /\ UNCHANGED chatVars
    /\ UNCHANGED pageVars

\* GET /auth/me answers 200: getCurrentUser returns the user
meOk(c) ==
    /\ call[c].pc = "me"
    /\ LET r == [call[c] EXCEPT !.pc = "done", !.log = Append(@, "me200")] IN
          /\ call' = [call EXCEPT ![c] = r]
          /\ user' = setUserAfter(r, user)
    /\ UNCHANGED <<localStorage, issued, refreshLog, loginPc>>
    /\ UNCHANGED updatePc
    /\ UNCHANGED chatVars
    /\ UNCHANGED pageVars

\* GET /auth/me answers 401: getCurrentUser tries to refresh the token
meUnauthorized(c) ==
    /\ call[c].pc = "me"
    /\ LET r == refreshAccessToken([call[c] EXCEPT !.log = Append(@, "me401")],
                                   localStorage) IN
          /\ call' = [call EXCEPT ![c] = r]
          /\ user' = setUserAfter(r, user)
          /\ refreshLog' = IF r.pc = "refresh"
                           THEN Append(refreshLog, r.rtoken)
                           ELSE refreshLog
    /\ UNCHANGED <<localStorage, issued, loginPc>>
    /\ UNCHANGED updatePc
    /\ UNCHANGED chatVars
    /\ UNCHANGED pageVars

\* GET /auth/me answers an error status other than 401: getCurrentUser
\* throws 'Failed to fetch user'
meError(c) ==
    /\ call[c].pc = "me"
    /\ LET r == [call[c] EXCEPT !.pc = "failed", !.log = Append(@, "me500"),
                                !.error = "Failed to fetch user"] IN
          /\ call' = [call EXCEPT ![c] = r]
          /\ user' = setUserAfter(r, user)
    /\ UNCHANGED <<localStorage, issued, refreshLog, loginPc>>
    /\ UNCHANGED updatePc
    /\ UNCHANGED chatVars
    /\ UNCHANGED pageVars

\* the fetch of GET /auth/me rejects (a network error): the await is in no
\* try, so getCurrentUser rejects with the TypeError of fetch
meRejected(c) ==
    /\ call[c].pc = "me"
    /\ LET r == [call[c] EXCEPT !.pc = "failed", !.log = Append(@, "me_reject"),
                                !.error = "Failed to fetch"] IN
          /\ call' = [call EXCEPT ![c] = r]
          /\ user' = setUserAfter(r, user)
    /\ UNCHANGED <<localStorage, issued, refreshLog, loginPc>>
    /\ UNCHANGED updatePc
    /\ UNCHANGED chatVars
    /\ UNCHANGED pageVars

\* a refresh that stores the new pair and then fails the call without retrying
refreshOk_noRetry(c) ==
    /\ call[c].pc = "refresh"
    /\ issued < MaxIssued
    /\ LET token == TokenPair(issued + 1)
           r == [call[c] EXCEPT !.got = token, !.log = Append(@, "refresh_ok"),
                                !.pc = "failed", !.error = "Failed to fetch user"]
       IN /\ localStorage' = setTokens(localStorage, token)
          /\ issued' = issued + 1
          /\ call' = [call EXCEPT ![c] = r]
          /\ user' = setUserAfter(r, user)
    /\ UNCHANGED <<refreshLog, loginPc>>
    /\ UNCHANGED updatePc
    /\ UNCHANGED chatVars
    /\ UNCHANGED pageVars

\* POST /auth/refresh answers with a new pair: refreshAccessToken stores it
\* and returns true, and getCurrentUser calls itself again
refreshOk(c) ==
    /\ call[c].pc = "refresh"
    /\ issued < MaxIssued
    /\ LET token == TokenPair(issued + 1)
           ls == setTokens(localStorage, token)
           r == getCurrentUser([call[c] EXCEPT !.got = token,
                                               !.log = Append(@, "refresh_ok")], ls)
       IN /\ localStorage' = ls
          /\ issued' = issued + 1
          /\ call' = [call EXCEPT ![c] = r]
          /\ user' = setUserAfter(r, user)
    /\ UNCHANGED <<refreshLog, loginPc>>
    /\ UNCHANGED updatePc
    /\ UNCHANGED chatVars
    /\ UNCHANGED pageVars

\* POST /auth/refresh answers a non-success status, or the fetch rejects:
\* refreshAccessToken clears the tokens and returns false, getCurrentUser throws
refreshFailed(c) ==
    /\ call[c].pc = "refresh"
    /\ LET r == [call[c] EXCEPT !.pc = "failed", !.log = Append(@, "refresh_fail"),
                                !.error = "Failed to fetch user"] IN
          /\ localStorage' = clearTokens(localStorage)
          /\ call' = [call EXCEPT ![c] = r]
          /\ user' = setUserAfter(r, user)
    /\ UNCHANGED <<issued, refreshLog, loginPc>>
    /\ UNCHANGED updatePc
    /\ UNCHANGED chatVars
    /\ UNCHANGED pageVars

\* AuthProvider.signup, up to the await of AuthService.signup
signupRequest ==
    /\ ~loginInFlight
    /\ issued < MaxIssued
    /\ \E c \in Calls : call[c].pc = "idle"
    /\ loginPc' = "signup"
    /\ UNCHANGED <<localStorage, issued, call, refreshLog, user>>
    /\ UNCHANGED updatePc
    /\ UNCHANGED chatVars
    /\ UNCHANGED pageVars

\* POST /auth/signup answers with the user: signup logs in with the same
\* credentials, AuthProvider.login calls AuthService.login, which sends
\* POST /auth/login
signupOk ==
    /\ loginPc = "signup"
    /\ loginPc' = "sent"
    /\ UNCHANGED <<localStorage, issued, call, refreshLog, user>>
    /\ UNCHANGED updatePc
    /\ UNCHANGED chatVars
    /\ UNCHANGED pageVars

\* POST /auth/signup answers a non-success status: signup throws and no
\* login is made
signupFailed ==
    /\ loginPc = "signup"
    /\ loginPc' = "signupFailed"
    /\ UNCHANGED <<localStorage, issued, call, refreshLog, user>>
    /\ UNCHANGED updatePc
    /\ UNCHANGED chatVars
    /\ UNCHANGED pageVars

\* AuthProvider.login -> AuthService.login, up to its await
loginRequest ==
    /\ ~loginInFlight
    /\ issued < MaxIssued
    /\ \E c \in Calls : call[c].pc = "idle"
    /\ loginPc' = "sent"
    /\ UNCHANGED <<localStorage, issued, call, refreshLog, user>>
    /\ UNCHANGED updatePc
    /\ UNCHANGED chatVars
    /\ UNCHANGED pageVars

\* POST /auth/login answers with a pair: AuthService.login stores it and
\* AuthProvider.login goes on with refreshUser, whose getCurrentUser sends
\* GET /auth/me with the new token
loginOk(c) ==
    /\ loginPc = "sent"
    /\ issued < MaxIssued
    /\ nextCall(c)
    /\ LET ls == setTokens(localStorage, TokenPair(issued + 1))
           r == getCurrentUser([call[c] EXCEPT !.caller = "login"], ls)
       IN /\ localStorage' = ls
          /\ call' = [call EXCEPT ![c] = r]
          /\ user' = setUserAfter(r, user)
    /\ issued' = issued + 1
    /\ loginPc' = "done"
    /\ UNCHANGED refreshLog
    /\ UNCHANGED updatePc
    /\ UNCHANGED chatVars
    /\ UNCHANGED pageVars

\* a failed login that removes the stored tokens
loginFailed_clearsTokens ==
    /\ loginPc = "sent"
    /\ loginPc' = "failed"
    /\ localStorage' = clearTokens(localStorage)
    /\ UNCHANGED <<issued, call, refreshLog, user>>
    /\ UNCHANGED updatePc
    /\ UNCHANGED chatVars
    /\ UNCHANGED pageVars

\* POST /auth/login answers a non-success status: login throws
loginFailed ==
    /\ loginPc = "sent"
    /\ loginPc' = "failed"
    /\ UNCHANGED <<localStorage, issued, call, refreshLog, user>>
    /\ UNCHANGED updatePc
    /\ UNCHANGED chatVars
    /\ UNCHANGED pageVars

\* AuthProvider.logout
\* a logout that leaves the refresh token in the storage
logout_keepsRefreshToken ==
    /\ localStorage' = clearTokens_accessOnly(localStorage)
    /\ user' = NoUser
    /\ UNCHANGED <<issued, call, refreshLog, loginPc>>
    /\ UNCHANGED updatePc
    /\ UNCHANGED chatVars
    /\ UNCHANGED pageVars

logout ==
    /\ localStorage' = clearTokens(localStorage)
    /\ user' = NoUser
    /\ UNCHANGED <<issued, call, refreshLog, loginPc>>
    /\ UNCHANGED updatePc
    /\ UNCHANGED chatVars
    /\ UNCHANGED pageVars

\* AuthProvider.updateUser -> AuthService.updateUser, up to its await: it
\* throws when no token is stored, else sends PATCH /auth/me with the token
updateUser ==
    /\ updatePc = "idle"
    /\ getToken(localStorage) # NoToken
    /\ updatePc' = "sent"
    /\ UNCHANGED <<localStorage, issued, call, refreshLog, loginPc, user>>
    /\ UNCHANGED chatVars
    /\ UNCHANGED pageVars

\* PATCH /auth/me answers 200: AuthProvider.updateUser sets the user to the
\* object of the answer
updateUserOk ==
    /\ updatePc = "sent"
    /\ updatePc' = "idle"
    /\ user' = UpdatedUser
    /\ UNCHANGED <<localStorage, issued, call, refreshLog, loginPc>>
    /\ UNCHANGED chatVars
    /\ UNCHANGED pageVars

\* PATCH /auth/me answers a non-success status, or the fetch rejects:
\* updateUser throws and the user is left as it was
updateUserFailed ==
    /\ updatePc = "sent"
    /\ updatePc' = "idle"
    /\ UNCHANGED <<localStorage, issued, call, refreshLog, loginPc, user>>
    /\ UNCHANGED chatVars
    /\ UNCHANGED pageVars

NextAuth ==
    \/ \E c \in Calls : initAuth(c)
    \/ \E c \in Calls : refreshUser(c)
    \/ \E c \in Calls : meOk(c)
    \/ \E c \in Calls : meUnauthorized(c)
    \/ \E c \in Calls : meError(c)
    \/ \E c \in Calls : meRejected(c)
    \/ \E c \in Calls : refreshOk(c)
    \/ \E c \in Calls : refreshFailed(c)
    \/ signupRequest
    \/ signupOk
    \/ signupFailed
    \/ loginRequest
    \/ \E c \in Calls : loginOk(c)
    \/ loginFailed
    \/ logout
    \/ updateUser
    \/ updateUserOk
    \/ updateUserFailed

(***************************************************************************)
(* Text.  A string is a sequence of one-character strings; the body of a   *)
(* response is a sequence of bytes, an ASCII byte written as its character *)
(* and the two bytes of the UTF-8 encoding of U+00E9 as "0xC3", "0xA9".    *)
(***************************************************************************)
LeadByte == "0xC3"
ContinuationByte == "0xA9"
TwoByteChar == "U+00E9"
ReplacementChar == "U+FFFD"

\* the text position i of the bytes decodes to: a character, or Skip for the
\* lead byte of a character that its continuation byte completes
Skip == "skip"

decodeAt(full, i) ==
    IF full[i] = LeadByte
    THEN IF i < Len(full) /\ full[i + 1] = ContinuationByte THEN Skip ELSE ReplacementChar
    ELSE IF full[i] = ContinuationByte
    THEN IF i > 1 /\ full[i - 1] = LeadByte THEN TwoByteChar ELSE ReplacementChar
    ELSE full[i]

NotSkip(c) == c # Skip

\* TextDecoder.decode(value) without {stream: true}: a character cut by the end
\* of the chunk is decoded as U+FFFD and nothing is carried over
decode_noStream(pending, bytes) ==
    LET full == pending \o bytes IN
    [text |-> SelectSeq([i \in 1..Len(full) |-> decodeAt(full, i)], NotSkip),
     pending |-> <<>>]

\* decoder.decode(value, {stream: true}): pending holds the bytes of a
\* character the previous chunks left incomplete; the result is the decoded
\* text and the bytes left pending
decode(pending, bytes) ==
    LET full == pending \o bytes
        cut == full # <<>> /\ full[Len(full)] = LeadByte
        whole == IF cut THEN SubSeq(full, 1, Len(full) - 1) ELSE full
    IN [text |-> SelectSeq([i \in 1..Len(whole) |-> decodeAt(whole, i)], NotSkip),
        pending |-> IF cut THEN <<LeadByte>> ELSE <<>>]

\* String.prototype.startsWith
startsWith(s, p) == Len(s) >= Len(p) /\ SubSeq(s, 1, Len(p)) = p

\* String.prototype.slice(n)
slice(s, n) == SubSeq(s, n + 1, Len(s))

WhiteSpace == {" ", "\t", "\r", "\n"}

RECURSIVE trimStart(_)
trimStart(s) ==
    IF s # <<>> /\ Head(s) \in WhiteSpace THEN trimStart(Tail(s)) ELSE s

RECURSIVE trimEnd(_)
trimEnd(s) ==
    IF s # <<>> /\ s[Len(s)] \in WhiteSpace
    THEN trimEnd(SubSeq(s, 1, Len(s) - 1))
    ELSE s

\* String.prototype.trim
trim(s) == trimEnd(trimStart(s))

\* the index of the first x in s, 0 when there is none
IndexOf(s, x) ==
    LET at == {i \in 1..Len(s) : s[i] = x} IN
    IF at = {} THEN 0 ELSE CHOOSE i \in at : \A j \in at : i <= j

\* buffer.split('\n'): the segments between the newlines, at least one
RECURSIVE split(_)
split(s) ==
    LET i == IndexOf(s, "\n") IN
    IF i = 0
    THEN <<s>>
    ELSE <<SubSeq(s, 1, i - 1)>> \o split(SubSeq(s, i + 1, Len(s)))

(***************************************************************************)
(* JSON.parse on the payloads of the model: an object with a string        *)
(* "content" and optionally "metadata" holding a string "finish_reason",   *)
(* the literals null, true and false, and unsigned integers.  Any other    *)
(* text of the model's streams is not JSON and makes JSON.parse throw.     *)
(***************************************************************************)
ContentOpen == <<"{", "\"", "c", "o", "n", "t", "e", "n", "t", "\"", ":", "\"">>
ObjectClose == <<"\"", "}">>
MetadataOpen ==
    <<"\"", ",", "\"", "m", "e", "t", "a", "d", "a", "t", "a", "\"", ":", "{", "\"",
      "f", "i", "n", "i", "s", "h", "_", "r", "e", "a", "s", "o", "n", "\"", ":", "\"">>
MetadataClose == <<"\"", "}", "}">>
Digits == {"0", "1", "2", "3", "4", "5", "6", "7", "8", "9"}
Literals == {<<"n", "u", "l", "l">>, <<"t", "r", "u", "e">>, <<"f", "a", "l", "s", "e">>}

\* a JSON string body that needs no escape
PlainString(x) ==
    \A i \in 1..Len(x) : x[i] \notin {"\"", "\\", "\n", "\r", "\t"}

SyntaxError == [kind |-> "SyntaxError", content |-> <<>>, finish_reason |-> <<>>]

JSONParse(data) ==
    IF data \in Literals
    THEN [kind |-> IF data = <<"n", "u", "l", "l">> THEN "null" ELSE "primitive",
          content |-> <<>>, finish_reason |-> <<>>]
    ELSE IF data # <<>> /\ (\A i \in 1..Len(data) : data[i] \in Digits)
              /\ (Len(data) = 1 \/ data[1] # "0")
    THEN [kind |-> "primitive", content |-> <<>>, finish_reason |-> <<>>]
    ELSE IF ~startsWith(data, ContentOpen)
    THEN SyntaxError
    ELSE LET rest == slice(data, Len(ContentOpen))
             q == IndexOf(rest, "\"")
             content == SubSeq(rest, 1, q - 1)
             tail == SubSeq(rest, q, Len(rest))
         IN IF q = 0 \/ ~PlainString(content)
            THEN SyntaxError
            ELSE IF tail = ObjectClose
            THEN [kind |-> "object", content |-> content, finish_reason |-> <<>>]
            ELSE IF ~startsWith(tail, MetadataOpen)
            THEN SyntaxError
            ELSE LET rest2 == slice(tail, Len(MetadataOpen))
                     q2 == IndexOf(rest2, "\"")
                     reason == SubSeq(rest2, 1, q2 - 1)
                 IN IF q2 = 0 \/ ~PlainString(reason)
                       \/ SubSeq(rest2, q2, Len(rest2)) # MetadataClose
                    THEN SyntaxError
                    ELSE [kind |-> "object", content |-> content,
                          finish_reason |-> reason]

(***************************************************************************)
(* ChatWindow: the stream of a turn.                                       *)
(***************************************************************************)
DataMarker == <<"d", "a", "t", "a", ":", " ">>

NoEvent == [kind |-> "none", text |-> <<>>, finish |-> FALSE]

\* a for loop that drops a payload JSON.parse rejects
lineEvent_dropsMalformed(line) ==
    IF ~startsWith(line, DataMarker)
    THEN NoEvent
    ELSE LET data == trim(slice(line, 6)) IN
         IF data = <<>>
         THEN NoEvent
         ELSE LET chunk == JSONParse(data) IN
              IF chunk.kind \in {"SyntaxError", "null"}
              THEN [kind |-> "skip", text |-> <<>>, finish |-> FALSE]
              ELSE IF chunk.content # <<>> /\ chunk.finish_reason = <<>>
              THEN [kind |-> "delta", text |-> chunk.content, finish |-> FALSE]
              ELSE [kind |-> "skip", text |-> <<>>,
                    finish |-> chunk.finish_reason # <<>>]

\* The body of the for loop for one line, as the event it amounts to:
\*   "delta": chunk.content is appended      "raw": the payload is appended
\*   "skip":  the payload parsed and nothing is appended
\*   "none":  no payload (no marker, or nothing after it)
\* JSON.parse throwing and chunk.content throwing on null both reach the catch.
lineEvent(line) ==
    IF ~startsWith(line, DataMarker)
    THEN NoEvent
    ELSE LET data == trim(slice(line, 6)) IN
         IF data = <<>>
         THEN NoEvent
         ELSE LET chunk == JSONParse(data) IN
              IF chunk.kind \in {"SyntaxError", "null"}
              THEN [kind |-> "raw", text |-> data, finish |-> FALSE]
              ELSE IF chunk.content # <<>> /\ chunk.finish_reason = <<>>
              THEN [kind |-> "delta", text |-> chunk.content, finish |-> FALSE]
              ELSE [kind |-> "skip", text |-> <<>>,
                    finish |-> chunk.finish_reason # <<>>]

\* the events of the lines that carry a payload, in order
RECURSIVE dataEvents(_)
dataEvents(lines) ==
    IF lines = <<>>
    THEN <<>>
    ELSE LET e == lineEvent(Head(lines)) IN
         (IF e.kind = "none" THEN <<>> ELSE <<e>>) \o dataEvents(Tail(lines))

\* a carry-over that is dropped at every chunk
carryOver_dropped(lines) == <<>>

\* buffer = lines.pop() || ''
carryOver(lines) == lines[Len(lines)]

\* the lines left in the array after lines.pop()
completeLines(lines) == SubSeq(lines, 1, Len(lines) - 1)

\* a map that appends the text to every assistant message
appendContent_all(prev, aiMessageId, text) ==
    [i \in DOMAIN prev |->
        IF prev[i].type = "ai"
        THEN [prev[i] EXCEPT !.content = @ \o text]
        ELSE prev[i]]

\* prev.map(msg => msg.id === aiMessageId ? {...msg, content: msg.content + text} : msg)
appendContent(prev, aiMessageId, text) ==
    [i \in DOMAIN prev |->
        IF prev[i].id = aiMessageId
        THEN [prev[i] EXCEPT !.content = @ \o text]
        ELSE prev[i]]

\* the setMessages calls of the for loop over the events of one chunk
RECURSIVE applyEvents(_, _, _)
applyEvents(prev, aiMessageId, evs) ==
    IF evs = <<>>
    THEN prev
    ELSE applyEvents(IF Head(evs).kind \in {"delta", "raw"}
                     THEN appendContent(prev, aiMessageId, Head(evs).text)
                     ELSE prev,
                     aiMessageId, Tail(evs))

(***************************************************************************)
(* The bodies the server may stream.                                       *)
(***************************************************************************)
DataLine(payload) == DataMarker \o payload \o <<"\n">>
ContentPayload(x) == ContentOpen \o x \o ObjectClose
FinishPayload(x, reason) == ContentOpen \o x \o MetadataOpen \o reason \o MetadataClose
Stop == <<"s", "t", "o", "p">>

Streams ==
    << \* two deltas and the completion event
       DataLine(ContentPayload(<<"H", "e", "l">>))
          \o DataLine(ContentPayload(<<"l", "o">>))
          \o DataLine(FinishPayload(<<>>, Stop)),
       \* a delta after the completion event
       DataLine(ContentPayload(<<"a">>))
          \o DataLine(FinishPayload(<<>>, Stop))
          \o DataLine(ContentPayload(<<"b">>)),
       \* a payload that is not JSON, an empty line, a line without the marker,
       \* and a two-byte character in a line that ends with CR LF
       DataLine(<<"n", "o", "t", "-", "j", "s", "o", "n">>)
          \o <<"\n">>
          \o <<":", " ", "p", "i", "n", "g", "\n">>
          \o DataMarker \o ContentPayload(<<LeadByte, ContinuationByte>>) \o <<"\r", "\n">>,
       \* a last line that no newline ends
       DataLine(ContentPayload(<<"a">>))
          \o DataMarker \o ContentPayload(<<"b">>),
       \* a completion event that carries content, null, and a number
       DataLine(FinishPayload(<<"x">>, Stop))
          \o DataLine(<<"n", "u", "l", "l">>)
          \o DataLine(<<"5">>) >>

StreamIds == DOMAIN Streams

NoStream == 0
NoTurn == 0
Turns == 1..MaxTurns

\* what the user types
UserTexts == {<<"h", "i">>}

\* the bodies GET /session/{threadId} may answer with; id 0 is a message
\* without an id
HistoryBodies ==
    { <<>>,
      << [id |-> -1, type |-> "human", content |-> <<"q">>],
         [id |-> 0, type |-> "ai", content |-> <<"r">>] >> }

(***************************************************************************)
(* The chat settings of ChatWindow and ChatSettingsModal.  rag_threshold   *)
(* is counted in tenths (7 is 0.7).                                        *)
(***************************************************************************)
\* the initial chatSettings of ChatWindow, also what handleReset sets
DefaultSettings == [use_rag |-> TRUE, rag_k |-> 5, rag_threshold |-> 7]

\* the three preset buttons: Precise, Balanced, Broad
Presets ==
    { [use_rag |-> TRUE, rag_k |-> 3, rag_threshold |-> 8],
      [use_rag |-> TRUE, rag_k |-> 5, rag_threshold |-> 7],
      [use_rag |-> TRUE, rag_k |-> 10, rag_threshold |-> 5] }

\* the rag fields handleSendMessage copies from chatSettings into requestData
requestData(settings) ==
    [use_rag |-> settings.use_rag,
     rag_k |-> settings.rag_k,
     rag_threshold |-> settings.rag_threshold]

\* the request of a turn that has not been made
NoRequest == [use_rag |-> FALSE, rag_k |-> 0, rag_threshold |-> 0]

DigitChars == <<"0", "1", "2", "3", "4", "5", "6", "7", "8", "9">>

IsDigit(ch) == \E i \in DOMAIN DigitChars : DigitChars[i] = ch

DigitValue(ch) == (CHOOSE i \in DOMAIN DigitChars : DigitChars[i] = ch) - 1

RECURSIVE DigitsValue(_)
DigitsValue(str) ==
    IF str = <<>> THEN 0
    ELSE 10 * DigitsValue(SubSeq(str, 1, Len(str) - 1)) + DigitValue(str[Len(str)])

\* parseInt(string): skips leading white space, reads an optional sign and
\* the longest run of decimal digits, and is NaN when there is no digit
parseInt(str) ==
    LET blanks == IF \E i \in DOMAIN str : str[i] # " "
                  THEN (CHOOSE i \in DOMAIN str :
                           str[i] # " " /\ \A j \in 1..(i - 1) : str[j] = " ") - 1
                  ELSE Len(str)
        rest == SubSeq(str, blanks + 1, Len(str))
        signed == rest # <<>> /\ rest[1] \in {"-", "+"}
        body == IF signed THEN Tail(rest) ELSE rest
        n == Cardinality({k \in DOMAIN body : \A j \in 1..k : IsDigit(body[j])})
        magnitude == DigitsValue(SubSeq(body, 1, n))
    IN  IF n = 0 THEN [nan |-> TRUE, value |-> 0]
        ELSE [nan |-> FALSE,
              value |-> IF signed /\ rest[1] = "-" THEN 0 - magnitude ELSE magnitude]

\* x || fallback, for a number x: NaN and 0 are falsy
orElse(x, fallback) == IF x.nan \/ x.value = 0 THEN fallback ELSE x.value

mathMin(a, b) == IF a < b THEN a ELSE b

mathMax(a, b) == IF a > b THEN a ELSE b

\* an onChange of the rag_k field that keeps whatever number was typed
ragK_unclamped(value) == orElse(parseInt(value), 5)

\* the value the onChange of the "Number of Results" field stores:
\* Math.max(1, Math.min(20, parseInt(e.target.value) || 5))
ragK(value) == mathMax(1, mathMin(20, orElse(parseInt(value), 5)))

\* what is typed into the "Number of Results" field
RagKInputs ==
    { <<>>, <<"a", "b", "c">>, <<"-">>, <<"0">>, <<"-", "3">>, <<"1">>,
      <<"2", "0">>, <<"2", "1">>, <<"9", "9", "9">>, <<"3", ".", "7">>,
      <<" ", "1", "0">>, <<"1", "e", "5">>, <<"+", "3">> }

\* the position of the similarity slider that is tried, in tenths
ThresholdInputs == {0}

InitSettings ==
    /\ showSettings = FALSE
    /\ chatSettings = DefaultSettings
    /\ localSettings = DefaultSettings

\* the gear button of ChatWindow
openSettings ==
    /\ mounted
    /\ ~showSettings
    /\ showSettings' = TRUE
    /\ UNCHANGED <<chatSettings, localSettings>>
    /\ UNCHANGED <<authVars, chatVars, docsVars>>

\* onClose: the close button and Cancel; the modal keeps its localSettings
onClose ==
    /\ showSettings
    /\ showSettings' = FALSE
    /\ UNCHANGED <<chatSettings, localSettings>>
    /\ UNCHANGED <<authVars, chatVars, docsVars>>

\* ChatSettingsModal.handleSave: onSave(localSettings); onClose()
handleSave ==
    /\ showSettings
    /\ chatSettings' = localSettings
    /\ showSettings' = FALSE
    /\ UNCHANGED localSettings
    /\ UNCHANGED <<authVars, chatVars, docsVars>>

\* ChatSettingsModal.handleReset
handleReset ==
    /\ showSettings
    /\ localSettings' = DefaultSettings
    /\ UNCHANGED <<showSettings, chatSettings>>
    /\ UNCHANGED <<authVars, chatVars, docsVars>>

\* a preset button
presetClick(preset) ==
    /\ showSettings
    /\ localSettings' = preset
    /\ UNCHANGED <<showSettings, chatSettings>>
    /\ UNCHANGED <<authVars, chatVars, docsVars>>

\* the "Enable RAG" switch
useRagChange(checked) ==
    /\ showSettings
    /\ localSettings' = [localSettings EXCEPT !.use_rag = checked]
    /\ UNCHANGED <<showSettings, chatSettings>>
    /\ UNCHANGED <<authVars, chatVars, docsVars>>

\* the "Number of Results" field, rendered while use_rag is on
ragKChange(value) ==
    /\ showSettings
    /\ localSettings.use_rag
    /\ localSettings' = [localSettings EXCEPT !.rag_k = ragK(value)]
    /\ UNCHANGED <<showSettings, chatSettings>>
    /\ UNCHANGED <<authVars, chatVars, docsVars>>

\* the similarity slider, rendered while use_rag is on: parseFloat of a
\* slider position
ragThresholdChange(tenths) ==
    /\ showSettings
    /\ localSettings.use_rag
    /\ localSettings' = [localSettings EXCEPT !.rag_threshold = tenths]
    /\ UNCHANGED <<showSettings, chatSettings>>
    /\ UNCHANGED <<authVars, chatVars, docsVars>>

InitTurn ==
    [pc |-> "idle", aiMessageId |-> 0, aborted |-> FALSE, authHeader |-> NoToken,
     status |-> 0, stream |-> NoStream, pos |-> 0, pending |-> <<>>,
     buffer |-> <<>>, events |-> <<>>, splitInMarker |-> FALSE,
     splitInPayload |-> FALSE, error |-> "", threadId |-> 0, key |-> 0,
     request |-> NoRequest]

InitChat ==
    /\ messages = <<>>
    /\ isStreaming = FALSE
    /\ isWaitingForResponse = FALSE
    /\ abortControllerRef = NoTurn
    /\ mounted = TRUE
    /\ history = "pending"
    /\ nextId = 1
    /\ nTurns = 0
    /\ turn = [t \in Turns |-> InitTurn]
    /\ currentThreadId = 1
    /\ key = 1

\* data.messages.map((msg, index) => ({...msg, id: msg.id || generateMessageId() + `-${index}`}))
messagesWithUniqueIds(body, firstId) ==
    [i \in DOMAIN body |->
        IF body[i].id = 0 THEN [body[i] EXCEPT !.id = firstId + i - 1] ELSE body[i]]

\* response.body of turn t: the bytes the server streams
responseBody(t) == IF turn[t].stream = NoStream THEN <<>> ELSE Streams[turn[t].stream]

\* fetchSessionHistory, after its await: the response is ok
fetchSessionHistoryOk(body) ==
    /\ history = "pending"
    /\ mounted
    /\ messages' = messagesWithUniqueIds(body, nextId)
    /\ nextId' = nextId + Len(body)
    /\ history' = "loaded"
    /\ UNCHANGED <<isStreaming, isWaitingForResponse, abortControllerRef, mounted,
                   nTurns, turn>>
    /\ UNCHANGED authVars
    /\ UNCHANGED pageVars
    /\ UNCHANGED appVars

\* fetchSessionHistory, after its await: the response is not ok, or the fetch rejects
fetchSessionHistoryFailed ==
    /\ history = "pending"
    /\ mounted
    /\ history' = "failed"
    /\ UNCHANGED <<messages, isStreaming, isWaitingForResponse, abortControllerRef,
                   mounted, nextId, nTurns, turn>>
    /\ UNCHANGED authVars
    /\ UNCHANGED pageVars
    /\ UNCHANGED appVars

\* a handleSendMessage that puts the messages of the turn in front
handleSendMessage_prepend(content) ==
    /\ mounted
    /\ nTurns < MaxTurns
    /\ LET t == nTurns + 1
           userMessage == [id |-> nextId, type |-> "human", content |-> content]
           aiMessage == [id |-> nextId + 1, type |-> "ai", content |-> <<>>]
       IN /\ messages' = <<userMessage, aiMessage>> \o messages
          /\ nextId' = nextId + 2
          /\ nTurns' = t
          /\ abortControllerRef' = t
          /\ turn' = [turn EXCEPT ![t] = [InitTurn EXCEPT
                          !.pc = "fetch",
                          !.aiMessageId = aiMessage.id,
                          !.authHeader = getAuthHeader(localStorage),
                          !.threadId = currentThreadId,
                          !.key = key,
                          !.request = requestData(chatSettings)]]
    /\ isStreaming' = TRUE
    /\ isWaitingForResponse' = TRUE
    /\ UNCHANGED <<mounted, history>>
    /\ UNCHANGED authVars
    /\ UNCHANGED pageVars
    /\ UNCHANGED appVars

\* handleSendMessage, up to the await of fetch(/stream)
handleSendMessage(content) ==
    /\ mounted
    /\ nTurns < MaxTurns
    /\ LET t == nTurns + 1
           userMessage == [id |-> nextId, type |-> "human", content |-> content]
           aiMessage == [id |-> nextId + 1, type |-> "ai", content |-> <<>>]
       IN /\ messages' = Append(Append(messages, userMessage), aiMessage)
          /\ nextId' = nextId + 2
          /\ nTurns' = t
          /\ abortControllerRef' = t
          /\ turn' = [turn EXCEPT ![t] = [InitTurn EXCEPT
                          !.pc = "fetch",
                          !.aiMessageId = aiMessage.id,
                          !.authHeader = getAuthHeader(localStorage),
                          !.threadId = currentThreadId,
                          !.key = key,
                          !.request = requestData(chatSettings)]]
    /\ isStreaming' = TRUE
    /\ isWaitingForResponse' = TRUE
    /\ UNCHANGED <<mounted, history>>
    /\ UNCHANGED authVars
    /\ UNCHANGED pageVars
    /\ UNCHANGED appVars

\* a handleSubmit that ignores disabled
handleSubmit_noGuard(content) == handleSendMessage(content)

\* ChatInput.handleSubmit: calls onSendMessage unless the input is disabled
\* (ChatWindow renders ChatInput with disabled = isStreaming)
handleSubmit(content) ==
    /\ ~isStreaming
    /\ handleSendMessage(content)

\* whether turn t was started by the instance shown
Live(t) == turn[t].key = key

\* a setter called by the closure of turn t with value: it updates the state
\* of the instance that started the turn, and React ignores the update of an
\* instance that has been unmounted
setState(t, current, value) == IF mounted /\ Live(t) THEN value ELSE current

\* a catch block that clears the content of the assistant message of the turn
catchError_clearsContent(t, status, error) ==
    /\ turn' = [turn EXCEPT ![t].pc = "failed", ![t].status = status,
                            ![t].error = error]
    /\ messages' = setState(t, messages,
                        [i \in DOMAIN messages |->
                            IF messages[i].id = turn[t].aiMessageId
                            THEN [messages[i] EXCEPT !.content = <<>>]
                            ELSE messages[i]])
    /\ isStreaming' = setState(t, isStreaming, FALSE)
    /\ isWaitingForResponse' = setState(t, isWaitingForResponse, FALSE)
    /\ UNCHANGED <<abortControllerRef, mounted, history, nextId, nTurns>>
    /\ UNCHANGED authVars
    /\ UNCHANGED pageVars
    /\ UNCHANGED appVars

\* a catch block that leaves isStreaming set
catchError_keepsStreaming(t, status, error) ==
    /\ turn' = [turn EXCEPT ![t].pc = "failed", ![t].status = status,
                            ![t].error = error]
    /\ isWaitingForResponse' = setState(t, isWaitingForResponse, FALSE)
    /\ UNCHANGED <<messages, isStreaming, abortControllerRef, mounted, history,
                   nextId, nTurns>>
    /\ UNCHANGED authVars
    /\ UNCHANGED pageVars
    /\ UNCHANGED appVars

\* the catch block of handleSendMessage
catchError(t, status, error) ==
    /\ turn' = [turn EXCEPT ![t].pc = "failed", ![t].status = status,
                            ![t].error = error]
    /\ isStreaming' = setState(t, isStreaming, FALSE)
    /\ isWaitingForResponse' = setState(t, isWaitingForResponse, FALSE)
    /\ UNCHANGED <<messages, abortControllerRef, mounted, history, nextId, nTurns>>
    /\ UNCHANGED authVars
    /\ UNCHANGED pageVars
    /\ UNCHANGED appVars

\* POST /stream answers 200 with a body: the read loop starts
streamResponseOk(t, s) ==
    /\ turn[t].pc = "fetch"
    /\ ~turn[t].aborted
    /\ turn' = [turn EXCEPT ![t].pc = "read", ![t].status = 200, ![t].stream = s]
    /\ UNCHANGED <<messages, isStreaming, isWaitingForResponse, abortControllerRef,
                   mounted, history, nextId, nTurns>>
    /\ UNCHANGED authVars
    /\ UNCHANGED pageVars
    /\ UNCHANGED appVars

\* POST /stream answers a non-success status: 'Failed to start streaming'
streamResponseNotOk(t, status) ==
    /\ turn[t].pc = "fetch"
    /\ ~turn[t].aborted
    /\ catchError(t, status, "Failed to start streaming")

\* POST /stream answers 200 without a body: 'No response body'
streamResponseNoBody(t) ==
    /\ turn[t].pc = "fetch"
    /\ ~turn[t].aborted
    /\ catchError(t, 200, "No response body")

\* the fetch rejects: the network failed, or the signal was aborted
streamFetchRejected(t) ==
    /\ turn[t].pc = "fetch"
    /\ catchError(t, 0, IF turn[t].aborted THEN "AbortError" ELSE "TypeError")

\* reader.read() resolves with the next n bytes of the body: one pass of the
\* while loop
readChunk(t, n) ==
    /\ turn[t].pc = "read"
    /\ ~turn[t].aborted
    /\ turn[t].pos + n <= Len(responseBody(t))
    /\ LET value == SubSeq(responseBody(t), turn[t].pos + 1, turn[t].pos + n)
           decoded == decode(turn[t].pending, value)
           lines == split(turn[t].buffer \o decoded.text)
           buffer == carryOver(lines)
           evs == dataEvents(completeLines(lines))
       IN /\ turn' = [turn EXCEPT
                 ![t].pos = @ + n,
                 ![t].pending = decoded.pending,
                 ![t].buffer = buffer,
                 ![t].events = @ \o evs,
                 ![t].splitInMarker =
                     @ \/ (buffer # <<>> /\ Len(buffer) < 6 /\ startsWith(DataMarker, buffer)),
                 ![t].splitInPayload =
                     @ \/ (Len(buffer) > 6 /\ startsWith(buffer, DataMarker))]
          /\ messages' = setState(t, messages,
                                  applyEvents(messages, turn[t].aiMessageId, evs))
          /\ isWaitingForResponse' =
                 IF evs = <<>> THEN isWaitingForResponse
                 ELSE setState(t, isWaitingForResponse, FALSE)
    /\ UNCHANGED <<isStreaming, abortControllerRef, mounted, history, nextId, nTurns>>
    /\ UNCHANGED authVars
    /\ UNCHANGED pageVars
    /\ UNCHANGED appVars

\* the transport cuts the body into chunks of any size
read(t) == \E n \in 1..(Len(responseBody(t)) - turn[t].pos) : readChunk(t, n)

\* a transport that delivers the body one line at a time
readLine(t) ==
    LET rest == SubSeq(responseBody(t), turn[t].pos + 1, Len(responseBody(t)))
        i == IndexOf(rest, "\n")
    IN /\ rest # <<>>
       /\ readChunk(t, IF i = 0 THEN Len(rest) ELSE i)

\* an end of the loop that processes the carry-over buffer as a last line
readDone_flushesBuffer(t) ==
    /\ turn[t].pc = "read"
    /\ turn[t].pos = Len(responseBody(t))
    /\ LET evs == dataEvents(<<turn[t].buffer>>) IN
          /\ turn' = [turn EXCEPT ![t].pc = "done", ![t].events = @ \o evs]
          /\ messages' = setState(t, messages,
                                  applyEvents(messages, turn[t].aiMessageId, evs))
    /\ isStreaming' = setState(t, isStreaming, FALSE)
    /\ isWaitingForResponse' = setState(t, isWaitingForResponse, FALSE)
    /\ UNCHANGED <<abortControllerRef, mounted, history, nextId, nTurns>>
    /\ UNCHANGED authVars
    /\ UNCHANGED pageVars
    /\ UNCHANGED appVars

\* reader.read() resolves with done: the loop ends
readDone(t) ==
    /\ turn[t].pc = "read"
    /\ turn[t].pos = Len(responseBody(t))
    /\ turn' = [turn EXCEPT ![t].pc = "done"]
    /\ isStreaming' = setState(t, isStreaming, FALSE)
    /\ isWaitingForResponse' = setState(t, isWaitingForResponse, FALSE)
    /\ UNCHANGED <<messages, abortControllerRef, mounted, history, nextId, nTurns>>
    /\ UNCHANGED authVars
    /\ UNCHANGED pageVars
    /\ UNCHANGED appVars

\* reader.read() rejects: the connection failed, or the signal was aborted
readRejected(t) ==
    /\ turn[t].pc = "read"
    /\ catchError(t, 200, IF turn[t].aborted THEN "AbortError" ELSE "TypeError")

\* the cleanup of the effect, run when the instance is unmounted
unmount ==
    /\ mounted
    /\ mounted' = FALSE
    /\ turn' = IF abortControllerRef = NoTurn
               THEN turn
               ELSE [turn EXCEPT ![abortControllerRef].aborted = TRUE]
    /\ UNCHANGED <<messages, isStreaming, isWaitingForResponse, abortControllerRef,
                   history, nextId, nTurns>>
    /\ UNCHANGED authVars
    /\ UNCHANGED pageVars
    /\ UNCHANGED appVars

(***************************************************************************)
(* ChatApp: selecting a thread or starting a new chat changes the key of   *)
(* ChatWindow, so React unmounts the instance shown (its effect cleanup    *)
(* runs) and mounts a new one, whose state starts from its initial values. *)
(* The state variables of the window are those of the instance shown; the  *)
(* closures of a discarded instance keep running, and their setters have   *)
(* no effect on the instance shown.                                        *)
(***************************************************************************)
\* the threads the sidebar lists
ThreadIds == {2}

\* generateNewThreadId: an id no listed thread has
generateNewThreadId == 2 + key

\* a cleanup that aborts nothing
cleanup_noAbort(ref, trn) == trn

\* the cleanup of the effect: if (abortControllerRef.current) abortControllerRef.current.abort()
cleanup(ref, trn) ==
    IF ref = NoTurn THEN trn ELSE [trn EXCEPT ![ref].aborted = TRUE]

\* the key changes: the instance shown is unmounted and a new one is mounted
\* for the thread, which starts loading its history
remount(threadId) ==
    /\ mounted
    /\ key < MaxKeys
    /\ currentThreadId' = threadId
    /\ key' = key + 1
    /\ turn' = cleanup(abortControllerRef, turn)
    /\ messages' = <<>>
    /\ isStreaming' = FALSE
    /\ isWaitingForResponse' = FALSE
    /\ abortControllerRef' = NoTurn
    /\ history' = "pending"
    /\ showSettings' = FALSE
    /\ chatSettings' = DefaultSettings
    /\ localSettings' = DefaultSettings
    /\ UNCHANGED <<mounted, nextId, nTurns>>
    /\ UNCHANGED authVars
    /\ UNCHANGED docsVars

\* ChatApp.handleThreadSelect
handleThreadSelect(threadId) == remount(threadId)

\* ChatApp.handleNewChat
handleNewChat == remount(generateNewThreadId)

\* the pending fetch or read of a turn of a discarded instance rejects: its
\* catch runs, and the setters of the discarded instance change nothing
discardedTurnRejects(t) ==
    /\ ~Live(t)
    /\ turn[t].pc \in {"fetch", "read"}
    /\ turn' = [turn EXCEPT ![t].pc = "failed",
                            ![t].error = IF turn[t].aborted THEN "AbortError"
                                                            ELSE "TypeError"]
    /\ UNCHANGED <<messages, isStreaming, isWaitingForResponse, abortControllerRef,
                   mounted, history, nextId, nTurns>>
    /\ UNCHANGED authVars
    /\ UNCHANGED pageVars
    /\ UNCHANGED appVars

(***************************************************************************)
(* The Documents page: the list, the selection, upload, delete, and        *)
(* handleIngest with the ingestion-status poller.  Every function of the   *)
(* component closes over the state of the render that created it; the      *)
(* functional updates of the setters read the current state.  The setters  *)
(* of a page that has been unmounted change nothing.  showDetails is true  *)
(* exactly when selectedDoc is set: the code writes the two together.      *)
(***************************************************************************)
Docs == 1..NumDocs

\* the ids in the order the server lists the documents
DocIds == [d \in Docs |-> d]

\* the documents the server holds when the page mounts: all ids but the
\* last one, which the first upload is given
InitialDocs == 1..(NumDocs - 1)

\* a Document: its id and its ingestion_status
Document(d, status) == [id |-> d, ingestion_status |-> status]

\* selectedDoc = null
NoDoc == Document(0, "")

\* whether the server holds document d
OnServer(server, d) == server[d] \notin {"none", "deleted"}

\* the answer of GET /documents
getDocuments(server) ==
    LET ids == SelectSeq(DocIds, LAMBDA d : OnServer(server, d))
    IN [i \in 1..Len(ids) |-> Document(ids[i], server[ids[i]])]

\* docs.some(doc => doc.id === d)
Has(docs, d) == \E i \in DOMAIN docs : docs[i].id = d

\* docs.find(doc => doc.id === d)
find(docs, d) == docs[CHOOSE i \in DOMAIN docs : docs[i].id = d]

\* prev.map(doc => doc.id === d ? { ...doc, ingestion_status: status } : doc)
withStatus(docs, d, status) ==
    [i \in DOMAIN docs |->
        IF docs[i].id = d THEN [docs[i] EXCEPT !.ingestion_status = status]
        ELSE docs[i]]

\* the ids of a list of documents
idsOf(docs) == [i \in DOMAIN docs |-> docs[i].id]

\* new Set(ids).add(d): a Set keeps the order of insertion
setAdd(ids, d) == IF \E i \in DOMAIN ids : ids[i] = d THEN ids ELSE Append(ids, d)

\* new Set(ids).delete(d)
setDelete(ids, d) == SelectSeq(ids, LAMBDA e : e # d)

\* a setter of the page called with value: React ignores the update of a
\* page that has been unmounted
setPage(current, value) == IF docsMounted THEN value ELSE current

\* ingestionCheckInterval.current holds no running timer
NoInterval == [set |-> FALSE, documents |-> <<>>, processingDocs |-> {}]

\* setInterval(() => checkProcessingDocuments(), 5000) called in a render
\* whose state is docs and processing: the callback keeps that render's
\* checkProcessingDocuments
setInterval(docs, processing) ==
    [set |-> TRUE, documents |-> docs, processingDocs |-> processing]

\* startIngestionStatusCheck of a render whose state is docs and processing:
\* it replaces the timer
startIngestionStatusCheck(docs, processing) == setInterval(docs, processing)

\* the number of requests of the page that are awaiting their answer
inFlight ==
    BagCardinality(ingest) + BagCardinality(deleting) + BagCardinality(bulk)
        + uploads + fetching

\* the page has mounted: fetchDocuments is in flight and the mount effect has
\* started the timer, in the first render, whose documents are []
InitDocs ==
    /\ documents = <<>>
    /\ processingDocs = {}
    /\ ingestionCheckInterval = startIngestionStatusCheck(<<>>, {})
    /\ ingest = EmptyBag
    /\ check = EmptyBag
    /\ serverStatus = [d \in Docs |-> IF d \in InitialDocs THEN "pending" ELSE "none"]
    /\ ticks = 0
    /\ docsMounted = TRUE
    /\ fetching = 1
    /\ loading = TRUE
    /\ searchQuery = <<>>
    /\ sortField = "created_at"
    /\ sortOrder = "desc"
    /\ viewMode = "list"
    /\ selectedDoc = NoDoc
    /\ selectedDocIds = <<>>
    /\ uploading = FALSE
    /\ uploads = 0
    /\ deleting = EmptyBag
    /\ bulk = EmptyBag

\* the cleanup of the mount effect, run when the page is left: it stops the
\* timer
unmountDocuments ==
    /\ docsMounted
    /\ docsMounted' = FALSE
    /\ ingestionCheckInterval' = NoInterval
    /\ UNCHANGED <<documents, processingDocs, ingest, check, serverStatus, ticks,
                   fetching, selectedDoc, selectedDocIds, uploading, uploads,
                   deleting, bulk>>
    /\ UNCHANGED loading
    /\ UNCHANGED viewVars
    /\ UNCHANGED <<authVars, chatVars, settingsVars>>

\* fetchDocuments, when the list has arrived: setDocuments(allDocuments), and
\* setLoading(false) in its finally
fetchDocumentsOk ==
    /\ fetching > 0
    /\ fetching' = fetching - 1
    /\ documents' = setPage(documents, getDocuments(serverStatus))
    /\ UNCHANGED <<processingDocs, ingestionCheckInterval, ingest, check,
                   serverStatus, ticks, docsMounted, selectedDoc, selectedDocIds,
                   uploading, uploads, deleting, bulk>>
    /\ loading' = setPage(loading, FALSE)
    /\ UNCHANGED viewVars
    /\ UNCHANGED <<authVars, chatVars, settingsVars>>

\* fetchDocuments, when getDocuments fails: the list is left as it is, and
\* setLoading(false) in its finally
fetchDocumentsFailed ==
    /\ fetching > 0
    /\ fetching' = fetching - 1
    /\ UNCHANGED <<documents, processingDocs, ingestionCheckInterval, ingest,
                   check, serverStatus, ticks, docsMounted, selectedDoc,
                   selectedDocIds, uploading, uploads, deleting, bulk>>
    /\ loading' = setPage(loading, FALSE)
    /\ UNCHANGED viewVars
    /\ UNCHANGED <<authVars, chatVars, settingsVars>>

\* the filename, file_size and created_at the server gives document d: a
\* name is a sequence of characters, and a document uploaded later is newer
filename(d) == IF d % 2 = 1 THEN <<"a">> ELSE <<"B">>

file_size(d) == (d % 2) + 1

created_at(d) == d

\* the fields the table can be sorted by
SortFields == {"filename", "file_size", "created_at"}

\* the texts typed into the search box
SearchQueries == {<<>>, <<"A">>}

\* String.prototype.toLowerCase
toLowerCase(s) ==
    [i \in DOMAIN s |-> CASE s[i] = "A" -> "a" [] s[i] = "B" -> "b" [] OTHER -> s[i]]

\* String.prototype.includes
includes(s, q) ==
    \E i \in 0..(Len(s) - Len(q)) : SubSeq(s, i + 1, i + Len(q)) = q

\* the UTF-16 code of a character
charCode(ch) ==
    CASE ch = "A" -> 65 [] ch = "B" -> 66 [] ch = "a" -> 97 [] ch = "b" -> 98

\* a < b of two strings: the first code that differs decides, a proper
\* prefix is smaller
stringLess(a, b) ==
    \E i \in 1..Len(b) :
        /\ i <= Len(a) + 1
        /\ \A j \in 1..(i - 1) : a[j] = b[j]
        /\ i <= Len(a) => charCode(a[i]) < charCode(b[i])

\* the comparator of the sort, for the documents with ids a and b: -1, 1 or
\* 0; filenames are compared in lower case
compare(a, b, field, order) ==
    LET less(x, y) == CASE field = "filename" ->
                               stringLess(toLowerCase(filename(x)),
                                          toLowerCase(filename(y)))
                        [] field = "file_size" -> file_size(x) < file_size(y)
                        [] field = "created_at" -> created_at(x) < created_at(y)
    IN IF order = "asc"
       THEN (IF less(a, b) THEN -1 ELSE IF less(b, a) THEN 1 ELSE 0)
       ELSE (IF less(b, a) THEN -1 ELSE IF less(a, b) THEN 1 ELSE 0)

\* [...docs].sort(comparator): the sort is stable
sort(docs, field, order) ==
    LET before(i, j) ==
            \/ compare(docs[i].id, docs[j].id, field, order) < 0
            \/ compare(docs[i].id, docs[j].id, field, order) = 0 /\ i < j
    IN [k \in DOMAIN docs |->
           docs[CHOOSE j \in DOMAIN docs :
                    Cardinality({i \in DOMAIN docs : before(i, j)}) = k - 1]]

\* filteredDocuments, which the effect on documents, searchQuery, sortField
\* and sortOrder sets after every render: the documents whose name holds
\* the search text, sorted
filteredDocuments ==
    sort(SelectSeq(documents,
                   LAMBDA doc : includes(toLowerCase(filename(doc.id)),
                                         toLowerCase(searchQuery))),
         sortField, sortOrder)

\* the list is rendered, in place of the spinner: its rows, their buttons
\* and the table head exist only then
listShown == docsMounted /\ ~loading

\* the table of the list view is rendered, with its head
tableShown == listShown /\ filteredDocuments # <<>> /\ viewMode = "list"

\* the search box changes
searchChange(query) ==
    /\ docsMounted
    /\ query # searchQuery
    /\ searchQuery' = query
    /\ UNCHANGED <<documents, processingDocs, ingestionCheckInterval, ingest,
                   check, serverStatus, ticks, docsMounted, fetching, loading,
                   sortField, sortOrder, viewMode, selectedDoc, selectedDocIds,
                   uploading, uploads, deleting, bulk>>
    /\ UNCHANGED <<authVars, chatVars, settingsVars>>

\* a button of the view toggle
viewToggleClick(mode) ==
    /\ docsMounted
    /\ mode # viewMode
    /\ viewMode' = mode
    /\ UNCHANGED <<documents, processingDocs, ingestionCheckInterval, ingest,
                   check, serverStatus, ticks, docsMounted, fetching, loading,
                   searchQuery, sortField, sortOrder, selectedDoc,
                   selectedDocIds, uploading, uploads, deleting, bulk>>
    /\ UNCHANGED <<authVars, chatVars, settingsVars>>

\* handleSort(field), from a column head of the table
handleSort(field) ==
    /\ tableShown
    /\ IF sortField = field
       THEN /\ sortOrder' = (IF sortOrder = "asc" THEN "desc" ELSE "asc")
            /\ UNCHANGED sortField
       ELSE /\ sortField' = field
            /\ sortOrder' = "asc"
    /\ UNCHANGED <<documents, processingDocs, ingestionCheckInterval, ingest,
                   check, serverStatus, ticks, docsMounted, fetching, loading,
                   searchQuery, viewMode, selectedDoc, selectedDocIds,
                   uploading, uploads, deleting, bulk>>
    /\ UNCHANGED <<authVars, chatVars, settingsVars>>

\* handleDocClick(doc), from the name of a row: the details panel shows the
\* document as it is in the list now
handleDocClick(d) ==
    /\ listShown
    /\ Has(filteredDocuments, d)
    /\ selectedDoc' = find(documents, d)
    /\ UNCHANGED <<documents, processingDocs, ingestionCheckInterval, ingest,
                   check, serverStatus, ticks, docsMounted, fetching,
                   selectedDocIds, uploading, uploads, deleting, bulk>>
    /\ UNCHANGED loading
    /\ UNCHANGED viewVars
    /\ UNCHANGED <<authVars, chatVars, settingsVars>>

\* the close button of the details panel
closeDetails ==
    /\ docsMounted
    /\ selectedDoc # NoDoc
    /\ selectedDoc' = NoDoc
    /\ UNCHANGED <<documents, processingDocs, ingestionCheckInterval, ingest,
                   check, serverStatus, ticks, docsMounted, fetching,
                   selectedDocIds, uploading, uploads, deleting, bulk>>
    /\ UNCHANGED loading
    /\ UNCHANGED viewVars
    /\ UNCHANGED <<authVars, chatVars, settingsVars>>

\* the checkbox of a row changes: the id joins or leaves selectedDocIds
checkboxChange(d) ==
    /\ listShown
    /\ Has(filteredDocuments, d)
    /\ selectedDocIds' = IF \E i \in DOMAIN selectedDocIds : selectedDocIds[i] = d
                         THEN setDelete(selectedDocIds, d)
                         ELSE setAdd(selectedDocIds, d)
    /\ UNCHANGED <<documents, processingDocs, ingestionCheckInterval, ingest,
                   check, serverStatus, ticks, docsMounted, fetching, selectedDoc,
                   uploading, uploads, deleting, bulk>>
    /\ UNCHANGED loading
    /\ UNCHANGED viewVars
    /\ UNCHANGED <<authVars, chatVars, settingsVars>>

\* handleSelectAll, from the checkbox of the table head: the ids of
\* filteredDocuments, in the order of the table
handleSelectAll ==
    /\ tableShown
    /\ selectedDocIds' = IF Len(selectedDocIds) = Len(filteredDocuments)
                         THEN <<>>
                         ELSE idsOf(filteredDocuments)
    /\ UNCHANGED <<documents, processingDocs, ingestionCheckInterval, ingest,
                   check, serverStatus, ticks, docsMounted, fetching, selectedDoc,
                   uploading, uploads, deleting, bulk>>
    /\ UNCHANGED loading
    /\ UNCHANGED viewVars
    /\ UNCHANGED <<authVars, chatVars, settingsVars>>

\* handleUpload(file), up to the await of uploadDocument
handleUpload ==
    /\ inFlight < MaxInFlight
    /\ uploads < Cardinality({d \in Docs : serverStatus[d] = "none"})
    /\ uploads' = uploads + 1
    /\ uploading' = setPage(uploading, TRUE)
    /\ UNCHANGED <<documents, processingDocs, ingestionCheckInterval, ingest,
                   check, serverStatus, ticks, docsMounted, fetching, selectedDoc,
                   selectedDocIds, deleting, bulk>>
    /\ UNCHANGED loading
    /\ UNCHANGED viewVars
    /\ UNCHANGED <<authVars, chatVars, settingsVars>>

\* the Upload button, disabled while uploading, with a file that
\* handleFileSelect accepts
uploadClick ==
    /\ docsMounted
    /\ ~uploading
    /\ handleUpload

\* POST /documents/upload succeeds: the server has a new pending document,
\* handleUpload calls fetchDocuments, which begins with setLoading(true), and
\* then resets uploading
uploadDocumentOk ==
    /\ uploads > 0
    /\ LET d == CHOOSE e \in Docs :
                    /\ serverStatus[e] = "none"
                    /\ \A f \in Docs : f < e => serverStatus[f] # "none"
       IN serverStatus' = [serverStatus EXCEPT ![d] = "pending"]
    /\ uploads' = uploads - 1
    /\ fetching' = fetching + 1
    /\ uploading' = setPage(uploading, FALSE)
    /\ UNCHANGED <<documents, processingDocs, ingestionCheckInterval, ingest,
                   check, ticks, docsMounted, selectedDoc, selectedDocIds,
                   deleting, bulk>>
    /\ loading' = setPage(loading, TRUE)
    /\ UNCHANGED viewVars
    /\ UNCHANGED <<authVars, chatVars, settingsVars>>

\* POST /documents/upload fails: handleUpload sets the error message and
\* resets uploading
uploadDocumentFailed ==
    /\ uploads > 0
    /\ uploads' = uploads - 1
    /\ uploading' = setPage(uploading, FALSE)
    /\ UNCHANGED <<documents, processingDocs, ingestionCheckInterval, ingest,
                   check, serverStatus, ticks, docsMounted, fetching, selectedDoc,
                   selectedDocIds, deleting, bulk>>
    /\ UNCHANGED loading
    /\ UNCHANGED viewVars
    /\ UNCHANGED <<authVars, chatVars, settingsVars>>

\* handleDelete(documentId), confirmed, up to the await of deleteDocument;
\* selected is what its selectedDoc?.id === documentId will give
handleDelete(d) ==
    /\ inFlight < MaxInFlight
    /\ deleting' = deleting (+) SetToBag({[id |-> d, selected |-> selectedDoc.id = d]})
    /\ UNCHANGED <<documents, processingDocs, ingestionCheckInterval, ingest,
                   check, serverStatus, ticks, docsMounted, fetching, selectedDoc,
                   selectedDocIds, uploading, uploads, bulk>>
    /\ UNCHANGED loading
    /\ UNCHANGED viewVars
    /\ UNCHANGED <<authVars, chatVars, settingsVars>>

\* the Delete button of the row of document d
rowDeleteClick(d) ==
    /\ listShown
    /\ Has(filteredDocuments, d)
    /\ handleDelete(d)

\* the Delete button of the details panel
detailsDeleteClick ==
    /\ docsMounted
    /\ selectedDoc # NoDoc
    /\ handleDelete(selectedDoc.id)

\* DELETE /documents/{d} succeeds: the id leaves selectedDocIds, the details
\* panel is closed if it showed d at the click, and fetchDocuments is called,
\* which begins with setLoading(true)
deleteDocumentOk(d) ==
    \E r \in BagToSet(deleting) :
        /\ r.id = d
        /\ OnServer(serverStatus, d)
        /\ serverStatus' = [serverStatus EXCEPT ![d] = "deleted"]
        /\ deleting' = deleting (-) SetToBag({r})
        /\ selectedDocIds' = setPage(selectedDocIds, setDelete(selectedDocIds, d))
        /\ selectedDoc' = IF r.selected THEN setPage(selectedDoc, NoDoc) ELSE selectedDoc
        /\ fetching' = fetching + 1
        /\ UNCHANGED <<documents, processingDocs, ingestionCheckInterval, ingest,
                       check, ticks, docsMounted, uploading, uploads, bulk>>
        /\ loading' = setPage(loading, TRUE)
        /\ UNCHANGED viewVars
        /\ UNCHANGED <<authVars, chatVars, settingsVars>>

\* DELETE /documents/{d} fails: handleDelete sets the error message
deleteDocumentFailed(d) ==
    \E r \in BagToSet(deleting) :
        /\ r.id = d
        /\ deleting' = deleting (-) SetToBag({r})
        /\ UNCHANGED <<documents, processingDocs, ingestionCheckInterval, ingest,
                       check, serverStatus, ticks, docsMounted, fetching,
                       selectedDoc, selectedDocIds, uploading, uploads, bulk>>
        /\ UNCHANGED loading
        /\ UNCHANGED viewVars
        /\ UNCHANGED <<authVars, chatVars, settingsVars>>

\* handleBulkDelete, confirmed, up to the await of the first deleteDocument:
\* it deletes the ids of its selectedDocIds one after the other
handleBulkDelete ==
    /\ docsMounted
    /\ Len(selectedDocIds) # 0
    /\ inFlight < MaxInFlight
    /\ bulk' = bulk (+) SetToBag({selectedDocIds})
    /\ UNCHANGED <<documents, processingDocs, ingestionCheckInterval, ingest,
                   check, serverStatus, ticks, docsMounted, fetching, selectedDoc,
                   selectedDocIds, uploading, uploads, deleting>>
    /\ UNCHANGED loading
    /\ UNCHANGED viewVars
    /\ UNCHANGED <<authVars, chatVars, settingsVars>>

\* the DELETE of a bulk deletion succeeds: the next one is sent, or after the
\* last one the selection is emptied and fetchDocuments is called, which
\* begins with setLoading(true)
bulkDeleteOk ==
    \E ids \in BagToSet(bulk) :
        /\ OnServer(serverStatus, Head(ids))
        /\ serverStatus' = [serverStatus EXCEPT ![Head(ids)] = "deleted"]
        /\ IF Tail(ids) = <<>>
           THEN /\ bulk' = bulk (-) SetToBag({ids})
                /\ selectedDocIds' = setPage(selectedDocIds, <<>>)
                /\ fetching' = fetching + 1
                /\ loading' = setPage(loading, TRUE)
           ELSE /\ bulk' = (bulk (-) SetToBag({ids})) (+) SetToBag({Tail(ids)})
                /\ UNCHANGED <<selectedDocIds, fetching, loading>>
        /\ UNCHANGED <<documents, processingDocs, ingestionCheckInterval, ingest,
                       check, ticks, docsMounted, selectedDoc, uploading, uploads,
                       deleting>>
        /\ UNCHANGED viewVars
        /\ UNCHANGED <<authVars, chatVars, settingsVars>>

\* a DELETE of a bulk deletion fails: handleBulkDelete sets the error
\* message and stops
bulkDeleteFailed ==
    \E ids \in BagToSet(bulk) :
        /\ bulk' = bulk (-) SetToBag({ids})
        /\ UNCHANGED <<documents, processingDocs, ingestionCheckInterval, ingest,
                       check, serverStatus, ticks, docsMounted, fetching,
                       selectedDoc, selectedDocIds, uploading, uploads, deleting>>
        /\ UNCHANGED loading
        /\ UNCHANGED viewVars
        /\ UNCHANGED <<authVars, chatVars, settingsVars>>

\* handleIngest(documentId), up to the await of triggerIngestion: the
\* invocation keeps the documents and processingDocs of its render
handleIngest(d) ==
    /\ inFlight < MaxInFlight
    /\ ingest' = ingest (+) SetToBag({[id |-> d, documents |-> documents,
                                       processingDocs |-> processingDocs]})
    /\ UNCHANGED <<documents, processingDocs, ingestionCheckInterval, check,
                   serverStatus, ticks, docsMounted, fetching, selectedDoc,
                   selectedDocIds, uploading, uploads, deleting, bulk>>
    /\ UNCHANGED loading
    /\ UNCHANGED viewVars
    /\ UNCHANGED <<authVars, chatVars, settingsVars>>

\* whether the page shows the "Index for AI search" button for doc
ingestButtonShown(doc) == doc.ingestion_status \notin {"completed", "processing"}

\* the "Index for AI search" button of the row of document d
rowIngestClick(d) ==
    /\ listShown
    /\ Has(filteredDocuments, d)
    /\ ingestButtonShown(find(documents, d))
    /\ handleIngest(d)

\* the "Index for AI search" button of the details panel, which tests the
\* copy of the document that selectedDoc holds
detailsIngestClick ==
    /\ docsMounted
    /\ selectedDoc # NoDoc
    /\ ingestButtonShown(selectedDoc)
    /\ handleIngest(selectedDoc.id)

\* POST /documents/{d}/ingest succeeds: the document is shown as processing,
\* its id joins processingDocs and startIngestionStatusCheck restarts the timer
triggerIngestionOk(d) ==
    \E r \in BagToSet(ingest) :
        /\ r.id = d
        /\ OnServer(serverStatus, d)
        /\ serverStatus' = [serverStatus EXCEPT ![d] = "processing"]
        /\ documents' = setPage(documents, withStatus(documents, d, "processing"))
        /\ processingDocs' = setPage(processingDocs, processingDocs \cup {d})
        /\ ingestionCheckInterval' =
              startIngestionStatusCheck(r.documents, r.processingDocs)
        /\ ingest' = ingest (-) SetToBag({r})
        /\ UNCHANGED <<check, ticks, docsMounted, fetching, selectedDoc,
                       selectedDocIds, uploading, uploads, deleting, bulk>>
        /\ UNCHANGED loading
        /\ UNCHANGED viewVars
        /\ UNCHANGED <<authVars, chatVars, settingsVars>>

\* POST /documents/{d}/ingest fails: handleIngest sets the error message
triggerIngestionFailed(d) ==
    \E r \in BagToSet(ingest) :
        /\ r.id = d
        /\ ingest' = ingest (-) SetToBag({r})
        /\ UNCHANGED <<documents, processingDocs, ingestionCheckInterval, check,
                       serverStatus, ticks, docsMounted, fetching, selectedDoc,
                       selectedDocIds, uploading, uploads, deleting, bulk>>
        /\ UNCHANGED loading
        /\ UNCHANGED viewVars
        /\ UNCHANGED <<authVars, chatVars, settingsVars>>

\* the server finishes the ingestion of d
serverFinishes(d, status) ==
    /\ serverStatus[d] = "processing"
    /\ serverStatus' = [serverStatus EXCEPT ![d] = status]
    /\ UNCHANGED <<documents, processingDocs, ingestionCheckInterval, ingest,
                   check, ticks, docsMounted, fetching, selectedDoc,
                   selectedDocIds, uploading, uploads, deleting, bulk>>
    /\ UNCHANGED loading
    /\ UNCHANGED viewVars
    /\ UNCHANGED <<authVars, chatVars, settingsVars>>

\* documents.filter(doc => doc.ingestion_status === PROCESSING ||
\* processingDocs.has(doc.id)), over the state the closure holds
docsToCheck(docs, processing) ==
    SelectSeq(docs, LAMBDA doc : doc.ingestion_status = "processing"
                                    \/ doc.id \in processing)

\* a tick of the timer: checkProcessingDocuments up to its first await.  It
\* stops the timer when its closure has nothing to check, else it queries the
\* documents of its closure one after the other.
tick ==
    /\ ingestionCheckInterval.set
    /\ ticks < MaxTicks
    /\ ticks' = ticks + 1
    /\ LET toCheck == idsOf(docsToCheck(ingestionCheckInterval.documents,
                                        ingestionCheckInterval.processingDocs)) IN
          IF toCheck = <<>>
          THEN /\ ingestionCheckInterval' = NoInterval
               /\ UNCHANGED check
          ELSE /\ check' = check (+) SetToBag({toCheck})
               /\ UNCHANGED ingestionCheckInterval
    /\ UNCHANGED <<documents, processingDocs, ingest, serverStatus, docsMounted,
                   fetching, selectedDoc, selectedDocIds, uploading, uploads,
                   deleting, bulk>>
    /\ UNCHANGED loading
    /\ UNCHANGED viewVars
    /\ UNCHANGED <<authVars, chatVars, settingsVars>>

\* the rest of a checkProcessingDocuments invocation after its first document
restOf(checks, ids) ==
    IF Tail(ids) = <<>> THEN checks (-) SetToBag({ids})
    ELSE (checks (-) SetToBag({ids})) (+) SetToBag({Tail(ids)})

\* getIngestionStatus of the next document of a check answers: a status
\* other than processing is stored and the id leaves processingDocs
getIngestionStatusOk ==
    \E ids \in BagToSet(check) :
        LET d == Head(ids) IN
            /\ OnServer(serverStatus, d)
            /\ IF serverStatus[d] # "processing"
               THEN /\ documents' = setPage(documents,
                                        withStatus(documents, d, serverStatus[d]))
                    /\ processingDocs' = setPage(processingDocs, processingDocs \ {d})
               ELSE UNCHANGED <<documents, processingDocs>>
            /\ check' = restOf(check, ids)
            /\ UNCHANGED <<ingestionCheckInterval, ingest, serverStatus, ticks,
                           docsMounted, fetching, selectedDoc, selectedDocIds,
                           uploading, uploads, deleting, bulk>>
            /\ UNCHANGED loading
            /\ UNCHANGED viewVars
            /\ UNCHANGED <<authVars, chatVars, settingsVars>>

\* getIngestionStatus fails: the error is logged and the loop goes on
getIngestionStatusFailed ==
    \E ids \in BagToSet(check) :
        /\ check' = restOf(check, ids)
        /\ UNCHANGED <<documents, processingDocs, ingestionCheckInterval, ingest,
                       serverStatus, ticks, docsMounted, fetching, selectedDoc,
                       selectedDocIds, uploading, uploads, deleting, bulk>>
        /\ UNCHANGED loading
        /\ UNCHANGED viewVars
        /\ UNCHANGED <<authVars, chatVars, settingsVars>>

(***************************************************************************)
(* The specifications: the session guard alone, one turn of a chat window, *)
(* several turns, the windows of ChatApp, the settings and the Documents   *)
(* page.                                                                   *)
(***************************************************************************)
Init == InitAuth /\ InitChat /\ InitSettings /\ InitDocs

SpecAuth == Init /\ [][NextAuth]_vars

\* the first turn of the window
firstTurn(content) == nTurns = 0 /\ handleSubmit(content)

NextTurn ==
    \/ \E body \in HistoryBodies : fetchSessionHistoryOk(body)
    \/ fetchSessionHistoryFailed
    \/ \E content \in UserTexts : firstTurn(content)
    \/ \E t \in Turns, s \in StreamIds : streamResponseOk(t, s)
    \/ \E t \in Turns, status \in {401, 500} : streamResponseNotOk(t, status)
    \/ \E t \in Turns : streamResponseNoBody(t)
    \/ \E t \in Turns : streamFetchRejected(t)
    \/ \E t \in Turns : read(t)
    \/ \E t \in Turns : readDone(t)
    \/ \E t \in Turns : readRejected(t)
    \/ unmount

SpecTurn == Init /\ [][NextTurn]_vars

\* the bodies the server streams in the specifications of several turns
ChatStreamIds == {1, 2, 4}

\* the turns of a chat window, each sent through ChatInput
NextChat ==
    \/ \E body \in HistoryBodies : fetchSessionHistoryOk(body)
    \/ fetchSessionHistoryFailed
    \/ \E content \in UserTexts : handleSubmit(content)
    \/ \E t \in Turns, s \in ChatStreamIds : streamResponseOk(t, s)
    \/ \E t \in Turns : streamResponseNotOk(t, 500)
    \/ \E t \in Turns : streamResponseNoBody(t)
    \/ \E t \in Turns : streamFetchRejected(t)
    \/ \E t \in Turns : readLine(t)
    \/ \E t \in Turns : readDone(t)
    \/ \E t \in Turns : readRejected(t)
    \/ unmount

SpecChat == Init /\ [][NextChat]_vars

\* the first turn of the window shown
firstTurnOfWindow(content) ==
    /\ \A t \in Turns : turn[t].pc = "idle" \/ ~Live(t)
    /\ handleSubmit(content)

\* the windows ChatApp shows one after the other, each with one turn
NextApp ==
    \/ \E body \in HistoryBodies : fetchSessionHistoryOk(body)
    \/ fetchSessionHistoryFailed
    \/ \E content \in UserTexts : firstTurnOfWindow(content)
    \/ \E t \in Turns : Live(t) /\ streamResponseOk(t, 1)
    \/ \E t \in Turns : Live(t) /\ streamFetchRejected(t)
    \/ \E t \in Turns : Live(t) /\ readLine(t)
    \/ \E t \in Turns : Live(t) /\ readDone(t)
    \/ \E t \in Turns : Live(t) /\ readRejected(t)
    \/ \E t \in Turns : discardedTurnRejects(t)
    \/ \E threadId \in ThreadIds : handleThreadSelect(threadId)
    \/ handleNewChat

SpecApp == Init /\ [][NextApp]_vars

\* the settings modal, and a message sent while it is closed
sendWithSettings(content) == ~showSettings /\ firstTurn(content)

NextSettings ==
    \/ openSettings
    \/ onClose
    \/ handleSave
    \/ handleReset
    \/ \E preset \in Presets : presetClick(preset)
    \/ \E checked \in BOOLEAN : useRagChange(checked)
    \/ \E value \in RagKInputs : ragKChange(value)
    \/ \E tenths \in ThresholdInputs : ragThresholdChange(tenths)
    \/ \E content \in UserTexts : sendWithSettings(content)

SpecSettings == Init /\ [][NextSettings]_vars

\* the Documents page
\* the list with its search box, the details panel, upload, and ingestion
\* with its poller; the ingestions the server finishes succeed
NextDocs ==
    \/ fetchDocumentsOk
    \/ fetchDocumentsFailed
    \/ \E d \in Docs : handleDocClick(d)
    \/ closeDetails
    \/ \E query \in SearchQueries : searchChange(query)
    \/ uploadClick
    \/ uploadDocumentOk
    \/ uploadDocumentFailed
    \/ \E d \in Docs : rowIngestClick(d)
    \/ detailsIngestClick
    \/ \E d \in Docs : triggerIngestionOk(d)
    \/ \E d \in Docs : triggerIngestionFailed(d)
    \/ \E d \in Docs : serverFinishes(d, "completed")
    \/ tick
    \/ getIngestionStatusOk
    \/ getIngestionStatusFailed
    \/ unmountDocuments

\* the list with its search box, sorting and view toggle, the details
\* panel, the selection, upload and deletion
NextDocsDelete ==
    \/ fetchDocumentsOk
    \/ fetchDocumentsFailed
    \/ \E d \in Docs : handleDocClick(d)
    \/ closeDetails
    \/ \E d \in Docs : checkboxChange(d)
    \/ handleSelectAll
    \/ \E field \in SortFields : handleSort(field)
    \/ \E query \in SearchQueries : searchChange(query)
    \/ \E mode \in {"list", "grid"} : viewToggleClick(mode)
    \/ uploadClick
    \/ uploadDocumentOk
    \/ uploadDocumentFailed
    \/ \E d \in Docs : rowDeleteClick(d)
    \/ detailsDeleteClick
    \/ \E d \in Docs : deleteDocumentOk(d)
    \/ \E d \in Docs : deleteDocumentFailed(d)
    \/ handleBulkDelete
    \/ bulkDeleteOk
    \/ bulkDeleteFailed
    \/ unmountDocuments

SpecDocsDelete == Init /\ [][NextDocsDelete]_vars

SpecDocs == Init /\ [][NextDocs]_vars

\* a transport step of turn t: the request returns or fails, a read returns a
\* chunk, the end of the stream or an error
TransportStep(t) ==
    \/ streamFetchRejected(t)
    \/ streamResponseNotOk(t, 500)
    \/ streamResponseNoBody(t)
    \/ \E s \in ChatStreamIds : streamResponseOk(t, s)
    \/ readRejected(t)
    \/ readDone(t)
    \/ readLine(t)

\* the turns of a chat window, with every pending transport step eventually
\* resolving or rejecting
SpecChatFair == SpecChat /\ \A t \in Turns : WF_vars(TransportStep(t))

(***************************************************************************)
(* Properties of the session guard (AuthService.getCurrentUser).           *)
(***************************************************************************)
Last(s) == s[Len(s)]

EndsWith(s, x) == Len(s) > 0 /\ Last(s) = x

RefreshInFlight == {c \in Calls : call[c].pc = "refresh"}

\* C1: calls that are in flight together and are each answered 401 share one
\* refresh: never two refresh requests in flight at once, and no refresh
\* token is submitted to /auth/refresh twice.
C1_SingleRefreshInFlight ==
    /\ Cardinality(RefreshInFlight) <= 1
    /\ \A i, j \in DOMAIN refreshLog : i # j => refreshLog[i] # refreshLog[j]

\* C2: one call of getCurrentUser refreshes at most once, however the server
\* answers.
C2_AtMostOneRefreshPerCall ==
    \A c \in Calls : call[c].refreshCalls <= 1

\* C3: a call answered 401, then a successful refresh, then 200 has made
\* exactly one refresh call and exactly two /auth/me requests (the second in
\* flight as soon as the refresh succeeded) and returns the user without error.
C3_OneRefreshOneRetry ==
    \A c \in Calls :
        /\ call[c].log = <<"me401", "refresh_ok">> =>
              /\ call[c].pc = "me"
              /\ call[c].meCalls = 2
              /\ call[c].refreshCalls = 1
        /\ call[c].log = <<"me401", "refresh_ok", "me200">> =>
              /\ call[c].pc = "done"
              /\ call[c].meCalls = 2
              /\ call[c].refreshCalls = 1
              /\ call[c].error = ""

C3_Witness ==
    \E c \in Calls :
        /\ call[c].log = <<"me401", "refresh_ok", "me200">>
        /\ call[c].pc = "done"
        /\ user = TheUser

\* C5: when the refresh of a call fails, that step removes both tokens from
\* storage, issues no further /auth/me request and fails the call with an
\* error; a failed call never resumes.
C5_RefreshFailureClears ==
    [][\A c \in Calls :
          /\ (call[c].pc = "refresh" /\ call'[c].pc = "failed") =>
                /\ getToken(localStorage') = NoToken
                /\ getRefreshToken(localStorage') = NoToken
                /\ call'[c].meCalls = call[c].meCalls
                /\ call'[c].error # ""
          /\ call[c].pc = "failed" => call'[c] = call[c]]_vars

C5_Witness ==
    \E c \in Calls :
        /\ call[c].pc = "failed"
        /\ EndsWith(call[c].log, "refresh_fail")
        /\ call[c].rtoken # NoToken
        /\ localStorage = [access_token |-> NoToken, refresh_token |-> NoToken]

\* C6: the step that receives a successful refresh stores both tokens of the
\* new pair and re-issues /auth/me carrying the new access token, which is
\* not the token the rejected request carried.
C6_RetryCarriesNewToken ==
    [][\A c \in Calls :
          (call[c].pc = "refresh" /\ call'[c].log = Append(call[c].log, "refresh_ok")) =>
              /\ getToken(localStorage') = call'[c].got.access_token
              /\ getRefreshToken(localStorage') = call'[c].got.refresh_token
              /\ call'[c].pc = "me"
              /\ Last(call'[c].sent) = call'[c].got.access_token
              /\ Last(call'[c].sent) # Last(call[c].sent)]_vars

C6_Witness ==
    \E c \in Calls :
        /\ call[c].pc = "me"
        /\ EndsWith(call[c].log, "refresh_ok")
        /\ Len(call[c].sent) = 2
        /\ call[c].sent[2] = call[c].got.access_token
        /\ call[c].sent[1] # call[c].sent[2]

(***************************************************************************)
(* Properties of the streaming turn (ChatWindow.handleSendMessage).        *)
(***************************************************************************)
\* a value no content equals
Absent == <<"(no such message)">>

\* the content of the assistant message of turn t in the transcript
AiContent(t) ==
    IF \E i \in DOMAIN messages : messages[i].id = turn[t].aiMessageId
    THEN messages[CHOOSE i \in DOMAIN messages : messages[i].id = turn[t].aiMessageId].content
    ELSE Absent

\* the texts of the events that append, concatenated in order
RECURSIVE DeltaText(_)
DeltaText(evs) ==
    IF evs = <<>>
    THEN <<>>
    ELSE (IF Head(evs).kind \in {"delta", "raw"} THEN Head(evs).text ELSE <<>>)
         \o DeltaText(Tail(evs))

\* the events of the newline-terminated lines of a body decoded in one piece
EventsOfBody(bytes) ==
    dataEvents(completeLines(split(decode(<<>>, bytes).text)))

\* the index of the first completion event of evs, 0 when there is none
FirstFinish(evs) ==
    LET at == {i \in 1..Len(evs) : evs[i].finish} IN
    IF at = {} THEN 0 ELSE CHOOSE i \in at : \A j \in at : i <= j

\* C4: a generation request answered 401 while a refresh token is stored
\* does not fail without a token refresh having been attempted.
C4_RefreshOnUnauthorized ==
    \A t \in Turns :
        (turn[t].status = 401 /\ turn[t].pc = "failed"
            /\ getRefreshToken(localStorage) # NoToken)
        => refreshLog # <<>>

\* C7: however the transport cut the body into chunks, the events produced
\* so far are the events of the newline-terminated lines received so far,
\* each once and in order; at the end of the stream they are the events of
\* the whole body.
C7_ChunkingInvariant ==
    \A t \in Turns :
        turn[t].events = EventsOfBody(SubSeq(responseBody(t), 1, turn[t].pos))

C7_Witness ==
    \E t \in Turns :
        /\ turn[t].pc = "done"
        /\ turn[t].stream = 1
        /\ turn[t].splitInMarker
        /\ turn[t].splitInPayload
        /\ Len(turn[t].events) = 3
        /\ turn[t].events[1].text = <<"H", "e", "l">>
        /\ turn[t].events[2].text = <<"l", "o">>
        /\ turn[t].events[3].finish

\* C8: when the stream of a turn has ended, the assistant message of the
\* turn holds the concatenation of the delta texts of the stream, in order,
\* and the window is no longer streaming.
C8_FinalContent ==
    \A t \in Turns :
        turn[t].pc = "done" =>
            /\ AiContent(t) = DeltaText(EventsOfBody(responseBody(t)))
            /\ ~isStreaming

\* While the assistant message of a turn is in the transcript, its content is
\* the concatenation of the deltas processed so far (the premise is what the
\* late history load of C8 and C10 breaks).
ContentWhenPresent ==
    \A t \in Turns :
        (turn[t].pc # "idle" /\ AiContent(t) # Absent) =>
            AiContent(t) = DeltaText(turn[t].events)

\* C9: once a completion event has been processed, the assistant message
\* holds the deltas that preceded it and nothing more.
C9_FrozenAfterFinish ==
    \A t \in Turns :
        FirstFinish(turn[t].events) # 0 =>
            AiContent(t) =
                DeltaText(SubSeq(turn[t].events, 1, FirstFinish(turn[t].events)))

\* C10: once the abort of its controller has ended a turn, the assistant
\* message holds the concatenation of the deltas processed before the abort
\* and the window is no longer streaming.
C10_AbortKeepsPartial ==
    \A t \in Turns :
        (turn[t].pc = "failed" /\ turn[t].error = "AbortError") =>
            /\ AiContent(t) = DeltaText(turn[t].events)
            /\ ~isStreaming

(***************************************************************************)
(* Properties of the turns of one chat window.                             *)
(***************************************************************************)
\* the turns whose request or stream has not ended
InProgress == {t \in Turns : turn[t].pc \in {"fetch", "read"}}

\* C12: with the input of the window, at most one turn is in progress at any
\* time (one stream in flight, one assistant message that can still receive
\* deltas), the window is streaming while a turn is in progress, and a turn
\* begins only in a state where isStreaming is false.
C12_OneTurnInProgress ==
    [][/\ Cardinality(InProgress') <= 1
       /\ (InProgress' # {} => isStreaming')
       /\ (nTurns' # nTurns => ~isStreaming)]_vars

C12_Witness ==
    /\ nTurns = 2
    /\ turn[1].pc = "done"
    /\ turn[2].pc = "read"
    /\ turn[2].events # <<>>
    /\ InProgress = {2}
    /\ isStreaming

\* whether the transcript holds a message with this id
InTranscript(id) == \E i \in DOMAIN messages : messages[i].id = id

\* C13: the messages of a turn enter the transcript only once POST /stream
\* has answered with a success status and a readable body: while the request
\* is pending, and after it has failed (network error, non-success status,
\* missing body), the transcript holds no assistant message of that turn.
C13_MessagesAfterResponse ==
    \A t \in Turns :
        (turn[t].pc = "fetch" \/ (turn[t].pc = "failed" /\ turn[t].stream = NoStream))
            => ~InTranscript(turn[t].aiMessageId)

Observable ==
    [messages |-> messages, isStreaming |-> isStreaming,
     isWaitingForResponse |-> isWaitingForResponse]

\* what a normal end of the read loop leaves of the same state
CompletedView ==
    [messages |-> messages, isStreaming |-> FALSE, isWaitingForResponse |-> FALSE]

\* C15: the step in which a turn fails (transport error, non-success status,
\* missing body) leaves an observable state that differs from the one the
\* normal completion of the turn would have left with the same content.
C15_FailureObservable ==
    [][\A t \in Turns :
          (/\ t \in InProgress
           /\ turn'[t].pc = "failed"
           /\ turn'[t].error \in {"TypeError", "Failed to start streaming",
                                  "No response body"})
          => Observable' # CompletedView]_vars

\* C16: the step in which reader.read() rejects (a transport failure, not an
\* abort) leaves the transcript as it was: the assistant message of the turn
\* is not removed and keeps the concatenation of the deltas applied so far.
C16_FailureKeepsPartial ==
    [][\A t \in Turns :
          (turn[t].pc = "read" /\ turn'[t].pc = "failed" /\ ~turn[t].aborted) =>
              /\ messages' = messages
              /\ InTranscript(turn[t].aiMessageId) =>
                    AiContent(t)' = DeltaText(turn[t].events)]_vars

C16_Witness ==
    \E t \in Turns :
        /\ turn[t].pc = "failed"
        /\ turn[t].error = "TypeError"
        /\ turn[t].stream = 1
        /\ Len(turn[t].events) = 1
        /\ AiContent(t) = <<"H", "e", "l">>

\* the payload of the first line of the third body
NotJson == <<"n", "o", "t", "-", "j", "s", "o", "n">>

\* C17: once the line 'data: not-json' has been read, the first event applied
\* to the assistant message is a delta whose text is the raw payload
\* 'not-json'; the turn does not fail because of it, and the lines after it
\* are processed: at the end of the body the delta of the last line has been
\* applied after it.
C17_RawPayloadApplied ==
    \A t \in Turns :
        (turn[t].stream = 3 /\ turn[t].pos >= Len(DataLine(NotJson))) =>
            /\ turn[t].events # <<>>
            /\ turn[t].events[1] = [kind |-> "raw", text |-> NotJson, finish |-> FALSE]
            /\ turn[t].error \in {"", "TypeError", "AbortError"}
            /\ InTranscript(turn[t].aiMessageId) => startsWith(AiContent(t), NotJson)
            /\ turn[t].pos = Len(responseBody(t)) =>
                  /\ turn[t].events =
                        << [kind |-> "raw", text |-> NotJson, finish |-> FALSE],
                           [kind |-> "delta", text |-> <<TwoByteChar>>, finish |-> FALSE] >>
                  /\ InTranscript(turn[t].aiMessageId) =>
                        AiContent(t) = NotJson \o <<TwoByteChar>>

C17_Witness ==
    \E t \in Turns :
        /\ turn[t].pc = "done"
        /\ turn[t].stream = 3
        /\ AiContent(t) = NotJson \o <<TwoByteChar>>

\* C18: the step that ends the read loop while the carry-over buffer holds a
\* partial line discards that text: it applies no delta (the transcript and
\* the events are unchanged), raises no error, and the turn ends as a normal
\* completion, the window (if still mounted) no longer streaming.
C18_TrailingPartialLineDiscarded ==
    [][\A t \in Turns :
          (/\ turn[t].pc = "read"
           /\ turn[t].pos = Len(responseBody(t))
           /\ turn[t].buffer # <<>>
           /\ turn'[t].pc # "read")
          => \/ turn'[t].pc = "failed" /\ turn'[t].error \in {"TypeError", "AbortError"}
             \/ /\ turn'[t].pc = "done"
                /\ turn'[t].error = ""
                /\ turn'[t].events = turn[t].events
                /\ messages' = messages
                /\ mounted => (~isStreaming' /\ ~isWaitingForResponse')]_vars

C18_Witness ==
    \E t \in Turns :
        /\ turn[t].pc = "done"
        /\ turn[t].stream = 4
        /\ turn[t].buffer = DataMarker \o ContentPayload(<<"b">>)
        /\ turn[t].events = <<[kind |-> "delta", text |-> <<"a">>, finish |-> FALSE]>>
        /\ AiContent(t) = <<"a">>
        /\ turn[t].error = ""

\* C19: a step of the streaming path (any step but the history load) removes
\* no message and keeps the messages in their order; the step that starts a
\* turn appends the user message and then the empty assistant message at the
\* end; and wherever the assistant message of a turn is in the transcript,
\* the user message of that turn is immediately before it.
C19_StreamingKeepsOrder ==
    [][history' = history =>
          /\ Len(messages') >= Len(messages)
          /\ \A i \in DOMAIN messages :
                /\ messages'[i].id = messages[i].id
                /\ messages'[i].type = messages[i].type
          /\ nTurns' # nTurns =>
                /\ Len(messages') = Len(messages) + 2
                /\ messages'[Len(messages) + 1].type = "human"
                /\ messages'[Len(messages) + 2] =
                      [id |-> turn'[nTurns'].aiMessageId, type |-> "ai", content |-> <<>>]
          /\ nTurns' = nTurns => Len(messages') = Len(messages)
          /\ \A t \in 1..nTurns' : \A i \in DOMAIN messages' :
                messages'[i].id = turn'[t].aiMessageId =>
                    /\ i > 1
                    /\ messages'[i - 1].type = "human"
                    /\ messages'[i - 1].id = turn'[t].aiMessageId - 1]_vars

C19_Witness ==
    /\ nTurns = 2
    /\ Len(messages) = 6
    /\ messages[1].id = -1
    /\ messages[3].type = "human"
    /\ messages[4].id = turn[1].aiMessageId
    /\ messages[4].content # <<>>
    /\ messages[5].type = "human"
    /\ messages[6].id = turn[2].aiMessageId
    /\ messages[6].content # <<>>

\* the text of the events a step of turn t has added
AppliedText(t) ==
    DeltaText(SubSeq(turn'[t].events, Len(turn[t].events) + 1, Len(turn'[t].events)))

\* C20: a step that applies deltas of turn t appends their text to the
\* content of the message whose id is the assistant message id of turn t and
\* leaves every other message, and the length of the transcript, unchanged;
\* when no message has that id the transcript is unchanged.
C20_DeltaChangesOnlyItsMessage ==
    [][\A t \in Turns :
          turn'[t].pos # turn[t].pos =>
              /\ Len(messages') = Len(messages)
              /\ \A i \in DOMAIN messages :
                    messages'[i] =
                        IF messages[i].id = turn[t].aiMessageId
                        THEN [messages[i] EXCEPT !.content = @ \o AppliedText(t)]
                        ELSE messages[i]
              /\ ~InTranscript(turn[t].aiMessageId) => messages' = messages]_vars

C20_Witness ==
    \E t \in Turns :
        /\ DeltaText(turn[t].events) # <<>>
        /\ Len(messages) = 4
        /\ messages[2] = [id |-> 2, type |-> "ai", content |-> <<"r">>]
        /\ messages[3].content = <<"h", "i">>
        /\ messages[4].id = turn[t].aiMessageId
        /\ messages[4].content = DeltaText(turn[t].events)

\* the other case of C20: deltas processed while no message has the id
C20_NoSuchMessage ==
    \E t \in Turns :
        /\ DeltaText(turn[t].events) # <<>>
        /\ ~InTranscript(turn[t].aiMessageId)
        /\ Len(messages) = 2
        /\ messages[2].content = <<"r">>

(***************************************************************************)
(* Properties of ChatApp and its windows.                                  *)
(***************************************************************************)
\* the turns started by an instance that is no longer shown
Discarded == {t \in Turns : turn[t].pc # "idle" /\ ~Live(t)}

\* C21: once another thread (or a new chat) is shown, a turn of the window
\* shown before is aborted if it is still in progress, processes no further
\* delta, and no step of it changes the state of the window shown; the
\* transcript shown holds no message of such a turn.
C21_ThreadSwitchIsolates ==
    [][/\ \A t \in Discarded' :
             /\ turn'[t].pc \in {"fetch", "read"} => turn'[t].aborted
             /\ ~InTranscript(turn[t].aiMessageId)'
       /\ \A t \in Discarded :
             /\ turn'[t].events = turn[t].events
             /\ turn'[t] # turn[t] =>
                   /\ messages' = messages
                   /\ isStreaming' = isStreaming
                   /\ isWaitingForResponse' = isWaitingForResponse]_vars

C21_Witness ==
    \E t \in Turns :
        /\ t \in Discarded
        /\ turn[t].pc = "failed"
        /\ turn[t].error = "AbortError"
        /\ turn[t].events # <<>>
        /\ turn[t].threadId # currentThreadId
        /\ nTurns > t
        /\ turn[nTurns].pc = "read"
        /\ AiContent(nTurns) = DeltaText(turn[nTurns].events)
        /\ AiContent(nTurns) # <<>>

(***************************************************************************)
(* Further properties of the streaming turn.                               *)
(***************************************************************************)
\* C22: the fifth body holds only events that carry a finish_reason (the
\* first, with the content 'x') or that have no content (the JSON values
\* null and 5): whatever has been read of it, the assistant message is as it
\* was created, empty.
C22_FinishOrNoContentChangesNothing ==
    \A t \in Turns :
        (turn[t].stream = 5 /\ InTranscript(turn[t].aiMessageId)) =>
            AiContent(t) = <<>>

\* the part of C22 about finish_reason: an event that carries one adds
\* nothing, whatever its content is
FinishEventAddsNothing ==
    \A t \in Turns : \A i \in DOMAIN turn[t].events :
        turn[t].events[i].finish =>
            /\ turn[t].events[i].kind = "skip"
            /\ turn[t].events[i].text = <<>>

\* C23: whenever the history load completes, before or after the send, the
\* messages of a turn that has been sent are in the transcript, the user
\* message immediately before the assistant message, and the assistant
\* message holds the deltas processed so far.
C23_TurnSurvivesHistoryLoad ==
    \A t \in Turns :
        turn[t].pc # "idle" =>
            /\ InTranscript(turn[t].aiMessageId)
            /\ InTranscript(turn[t].aiMessageId - 1)
            /\ AiContent(t) = DeltaText(turn[t].events)

(***************************************************************************)
(* The session: logout, startup and login against the calls in flight.     *)
(***************************************************************************)
\* some refresh has failed (refreshAccessToken then cleared the tokens)
RefreshHasFailed ==
    \E c \in Calls : \E i \in 1..Len(call[c].log) : call[c].log[i] = "refresh_fail"

\* No token is stored and none was removed by a failed refresh: the last
\* operation that wrote the storage is logout, and no login has succeeded since.
LoggedOut ==
    /\ ~RefreshHasFailed
    /\ localStorage = clearTokens(localStorage)

\* the step in which AuthService.login stores the pair of a success response
LoginSucceeds == loginPc = "sent" /\ loginPc' = "done"

\* C24: once logout has run, no token is stored and the user is null, and
\* every step other than a successful login keeps it so, also the answer to
\* a getCurrentUser request or a refresh that was in flight at the logout.
C24_LogoutHoldsUntilLogin ==
    [][(LoggedOut /\ user = NoUser /\ ~LoginSucceeds)
          => (localStorage' = localStorage /\ user' = NoUser)]_vars

\* C25: a non-null user in the AuthContext implies a stored access token.
C25_UserImpliesToken ==
    user # NoUser => isAuthenticated(localStorage)

\* C26: when the getCurrentUser call of initAuth has failed and the user is
\* null (no login was made meanwhile), no token remains stored.
C26_FailedStartupClearsTokens ==
    \A c \in Calls :
        (call[c].caller = "initAuth" /\ call[c].pc = "failed"
            /\ user = NoUser /\ loginPc = "idle")
        => localStorage = clearTokens(localStorage)

\* the access token and the refresh token are both stored or both absent
BothOrNeither(ls) == (getToken(ls) = NoToken) <=> (getRefreshToken(ls) = NoToken)

\* the step in which refreshAccessToken of call c gets a success response
RefreshSucceeds(c) ==
    /\ call[c].pc = "refresh"
    /\ call'[c].log = Append(call[c].log, "refresh_ok")

\* the step in which refreshAccessToken of call c gets a failure
RefreshFails(c) ==
    /\ call[c].pc = "refresh"
    /\ call'[c].log = Append(call[c].log, "refresh_fail")

\* the step of AuthProvider.logout: no call and no login moves
LogoutStep == call' = call /\ loginPc' = loginPc /\ issued' = issued

\* C27: the two tokens are both stored or both absent in every state; a step
\* that changes the storage is a login or refresh success, which writes the
\* pair of the response, or a logout or refresh failure, which removes both.
C27_TokensPaired ==
    [][/\ BothOrNeither(localStorage)
       /\ BothOrNeither(localStorage')
       /\ localStorage' # localStorage =>
            \/ /\ LoginSucceeds \/ \E c \in Calls : RefreshSucceeds(c)
               /\ issued' = issued + 1
               /\ localStorage' = TokenPair(issued')
            \/ /\ LogoutStep \/ \E c \in Calls : RefreshFails(c)
               /\ localStorage' = clearTokens(localStorage)]_vars

\* the storage was emptied by a failed refresh and then filled by a login
C27_Witness ==
    /\ RefreshHasFailed
    /\ loginPc = "done"
    /\ localStorage = TokenPair(issued)

\* C28: the step that ends AuthService.login either throws and leaves both
\* stored tokens as they were, or stores the pair of the response in place
\* of both.
C28_LoginOutcome ==
    [][(loginPc = "sent" /\ loginPc' # "sent") =>
          \/ /\ loginPc' = "failed"
             /\ localStorage' = localStorage
          \/ /\ loginPc' = "done"
             /\ issued' = issued + 1
             /\ getToken(localStorage') = TokenPair(issued').access_token
             /\ getRefreshToken(localStorage') = TokenPair(issued').refresh_token]_vars

\* a login has failed and the pair stored before it is still there
C28_Witness ==
    /\ loginPc = "failed"
    /\ localStorage = TokenPair(1)

(***************************************************************************)
(* Properties of the ingestion-status poller of the Documents page.        *)
(***************************************************************************)
\* handleIngest has succeeded for d and d is still processing, on the
\* server and on the page, which is mounted
StillProcessing(d) ==
    /\ docsMounted
    /\ d \in processingDocs
    /\ Has(documents, d)
    /\ find(documents, d).ingestion_status = "processing"
    /\ serverStatus[d] = "processing"

\* C29: while a document for which handleIngest has succeeded is still
\* processing, the ingestion-status timer is running.
C29_PollerRunsWhileProcessing ==
    \A d \in Docs : StillProcessing(d) => ingestionCheckInterval.set

(***************************************************************************)
(* Properties of the chat settings.                                        *)
(***************************************************************************)
\* C30: rag_k is an integer in 1..20 in the modal's local settings, in the
\* chatSettings of the window and in the request of every turn made.
C30_RagKInRange ==
    /\ localSettings.rag_k \in 1..20
    /\ requestData(chatSettings).rag_k \in 1..20
    /\ \A t \in Turns : turn[t].pc # "idle" => turn[t].request.rag_k \in 1..20

\* an input above the range was typed and saved, and a message was sent with it
C30_Witness ==
    /\ \E t \in Turns : turn[t].pc # "idle" /\ turn[t].request.rag_k = 20
    /\ localSettings.rag_k = 1

====
